---- MODULE Spec2Model ----
(***************************************************************************)
(* A model of the RocksDB storage engine of ArangoDB (RocksDBEngine.cpp):  *)
(* the keyspace of database, collection and view records, the document and *)
(* index key ranges scoped by objectId, the counter manager, the object    *)
(* registry, and the create / rename / drop / startup-scan operations.     *)
(***************************************************************************)
EXTENDS Integers, Sequences, FiniteSets, TLC

\* ------------------------------------------------------------------ bounds
\* number of database ids the tick generator hands out
MaxDb == 2
\* number of collection ids the tick generator hands out
MaxColl == 1
\* number of views per database
MaxView == 1
\* number of user keys of a document range
MaxKey == 1
\* number of indexes a collection carries
MaxIdx == 1

DbIds == 1..MaxDb
CIds == 1..MaxColl
VIds == 1..MaxView
Keys == 1..MaxKey

\* StaticStrings::SystemDatabase
SystemDatabase == "_system"
\* a velocypack value that is not a string
NotAString == "<not-a-string>"
CollNames == {"c", "c2"}

\* ---------------------------------------------------------------- variables
VARIABLES
  \* the keyspace of the store (_db), by entry type
  dbRecs,        \* RocksDBKey::Database(id)            -> slice
  collRecs,      \* RocksDBKey::Collection(dbId, cid)   -> slice
  viewRecs,      \* RocksDBKey::View(dbId, viewId), the keys present
  docs,          \* document keys, <<objectId, userKey>>
  idxEntries,    \* index entry keys, <<index objectId, userKey>>
  wal,          \* the log values written with PutLogData
  \* the process
  phase,         \* "down", "started" (start() done), "running" (databases open)
  vocbases,      \* open TRI_vocbase_t objects, id -> name
  pendingDrop,   \* databases unregistered, waiting for dropDatabase(vocbase)
  memColl,       \* LogicalCollection objects, cid -> [db, status, name]
  counters,      \* objectIds the counter manager holds an entry for
  drop,          \* the dropCollection call in progress, or the last that
                 \* got past its batch (pc = "idle")
  ret,           \* what the last call of the engine returned
  nextDb,        \* TRI_NewTickServer, for database ids
  nextCid,       \* TRI_NewTickServer, for collection ids
  memViews,      \* LogicalView objects registered with their vocbase
  scan,          \* what the last getDatabases call did
  \* the object registry
  collectionMap, \* _collectionMap, objectId -> <<databaseId, cid>>
  lastReg,       \* history: the arguments of the last register per objectId
  lookup,        \* the last mapObjectToCollection call and what it returned
  \* start and shutdown of the engine
  enabled,       \* isEnabled()
  sdb,           \* _db: "null", "open", "released" (deleted)
  bgThread,      \* _backgroundThread: "none", "running", "stopped"
  counterManager,\* _counterManager: "none", "live"
  cmCount,       \* objectId -> the count the counter manager holds in memory
  cmStored,      \* objectId -> the count its last sync wrote to the store
  upc,           \* position of unprepare()
  flushed,       \* history: unprepare has called sync(true)
  \* threads in the object registry
  regThreads,    \* thread -> the registry call it is in
  \* the scans of openExistingDatabase
  listed,        \* the last getCollectionsAndIndexes or getViews call
  \* the parameters of new collections and indexes
  oidTick,       \* the last value TRI_NewTickServer returned
  oidAssigned,   \* the objectIds of the objects created, in order
  \* the counter of one collection
  ctrWal,        \* the adjustments of the committed transactions, in log order
  ctrMem,        \* the counter entry in memory: count and sequence number
  ctrDisk,       \* the last checkpoint written: count and sequence marker
  ctrSnap,       \* the snapshot a checkpoint in progress has read
  ctrStaged,     \* the adjustment of a transaction that is not committed
  \* one logical transaction
  txEnabled,     \* _intermediateTransactionCommitEnabled
  txState,       \* "none", "running", "committed", "failed", "aborted"
  txOps,         \* the keys the caller has staged since begin()
  txStaged,      \* the keys in the write batch, not yet committed
  txSize,        \* the accumulated size of the write batch
  txVisible,     \* the keys a reader of the store sees
  txDiscarded,   \* history: the keys a failed commit or an abort threw away
  txCrossed,     \* history: an intermediate commit has succeeded
  \* the keyspace as byte strings
  kvKeys,        \* the document and index entries present
  kvLast,        \* the last range deletion or scan and the keys it covered
  \* the options of the engine
  optTable,      \* the options registered: name -> the member it is bound to
  optMember,     \* the members: _maxTransactionSize, ...CommitSize, ...
  optLast,       \* the last option given on the command line
  optTx,         \* the arguments of the last RocksDBTransactionState
  \* the analyzer feature
  anStarted,     \* _started
  anAnalyzers,   \* _analyzers: name -> pool [type, key, refCount]
  anCollection,  \* the configuration collection exists
  anStore,       \* its records: key -> [name, type, refCount]
  anLast,        \* the last call of the feature and what it returned
  \* the analyzer feature's threads and its mutex
  mxPc,          \* thread -> where it is in its call
  mxLock,        \* _mutex: the owner of the write side and its depth
  mxStarted,     \* _started
  mxRegistered,  \* the static analyzer is in _analyzers
  mxKey,         \* its pool's _key
  mxRecords,     \* the keys of its records in the collection
  mxVisit,       \* loadConfiguration: records to visit, name initialized
  \* IdentityTokenizer
  tokEmpty,      \* _empty
  tokValue,      \* _value
  tokTerm,       \* _term.value_
  tokLast,       \* the last call and what it returned
  \* OperationCursor
  curLimit,      \* _limit
  curHasMore,    \* _hasMore
  curBatchSize,  \* _batchSize
  curIterator,   \* the elements _iterator has left
  curInitial,    \* the limit the cursor was created with
  curTotal,      \* the elements returned since
  curLast        \* the last getMore: batch size, limit before, returned

storeVars == <<dbRecs, collRecs, viewRecs, docs, idxEntries, wal>>
procVars == <<phase, vocbases, pendingDrop, memColl, counters, drop, ret,
              nextDb, nextCid, memViews, scan>>
regVars == <<collectionMap, lastReg, lookup>>
shutVars == <<enabled, sdb, bgThread, counterManager, cmCount, cmStored, upc,
              flushed>>
thrVars == <<regThreads>>
listVars == <<listed>>
oidVars == <<oidTick, oidAssigned>>
ctrVars == <<ctrWal, ctrMem, ctrDisk, ctrSnap, ctrStaged>>
txVars == <<txEnabled, txState, txOps, txStaged, txSize, txVisible, txDiscarded, txCrossed>>
kvVars == <<kvKeys, kvLast>>
optVars == <<optTable, optMember, optLast, optTx>>
anVars == <<anStarted, anAnalyzers, anCollection, anStore, anLast>>
mxVars == <<mxPc, mxLock, mxStarted, mxRegistered, mxKey, mxRecords, mxVisit>>
tokVars == <<tokEmpty, tokValue, tokTerm, tokLast>>
curVars == <<curLimit, curHasMore, curBatchSize, curIterator, curInitial, curTotal, curLast>>
\* the variables of the later sections, and for each section the others
auxVars == <<thrVars, listVars, oidVars, ctrVars, txVars, kvVars, optVars, anVars, mxVars, tokVars, curVars>>
thrOthers == <<listVars, oidVars, ctrVars, txVars, kvVars, optVars, anVars, mxVars, tokVars, curVars>>
listOthers == <<thrVars, oidVars, ctrVars, txVars, kvVars, optVars, anVars, mxVars, tokVars, curVars>>
oidOthers == <<thrVars, listVars, ctrVars, txVars, kvVars, optVars, anVars, mxVars, tokVars, curVars>>
ctrOthers == <<thrVars, listVars, oidVars, txVars, kvVars, optVars, anVars, mxVars, tokVars, curVars>>
txOthers == <<thrVars, listVars, oidVars, ctrVars, kvVars, optVars, anVars, mxVars, tokVars, curVars>>
kvOthers == <<thrVars, listVars, oidVars, ctrVars, txVars, optVars, anVars, mxVars, tokVars, curVars>>
optOthers == <<thrVars, listVars, oidVars, ctrVars, txVars, kvVars, anVars, mxVars, tokVars, curVars>>
anOthers == <<thrVars, listVars, oidVars, ctrVars, txVars, kvVars, optVars, mxVars, tokVars, curVars>>
mxOthers == <<thrVars, listVars, oidVars, ctrVars, txVars, kvVars, optVars, anVars, tokVars, curVars>>
tokOthers == <<thrVars, listVars, oidVars, ctrVars, txVars, kvVars, optVars, anVars, mxVars, curVars>>
curOthers == <<thrVars, listVars, oidVars, ctrVars, txVars, kvVars, optVars, anVars, mxVars, tokVars>>
vars == <<storeVars, procVars, regVars, shutVars, auxVars>>

\* ------------------------------------------------------------------ helpers
EmptyFn == [x \in {} |-> 0]
Put(f, k, v) == [x \in DOMAIN f \cup {k} |-> IF x = k THEN v ELSE f[x]]
Remove(f, k) == [x \in DOMAIN f \ {k} |-> f[x]]

RECURSIVE SortedSeq(_)
SortedSeq(S) ==
  IF S = {} THEN <<>>
  ELSE LET m == CHOOSE x \in S : \A y \in S : x <= y
       IN <<m>> \o SortedSeq(S \ {m})

\* the parameters of the LogicalCollection with id cid: its objectId and the
\* objectIds of its indexes (both handed out once, by the tick generator)
objectIdOf(cid) == cid
indexesOf(cid) == [j \in 1..MaxIdx |-> MaxColl + (cid - 1) * MaxIdx + j]

NoDrop == [pc |-> "idle", db |-> 0, cid |-> 0, left |-> <<>>]
NoScan == [threw |-> FALSE, result |-> <<>>, dropped |-> {}]

\* RocksDBKeyBounds::CollectionDocuments(objectId), IndexEntries(objectId):
\* the keys of a set that carry this objectId
InBounds(keys, objectId) == {k \in keys : k[1] = objectId}
\* rocksutils::removeLargeRange
removeLargeRange(keys, objectId) == keys \ InBounds(keys, objectId)

\* ------------------------------------------------- collections: create, change
\* the velocypack slice of a collection (LogicalCollection::toVelocyPackIgnore)
CollSlice(cid, name, deleted) ==
  [objectId |-> objectIdOf(cid), name |-> name, deleted |-> deleted,
   indexes |-> indexesOf(cid)]

LogValue(type, d, cid) == <<type, d, cid>>

\* mutant: the log value is written apart from the record, outside the batch
writeCreateCollectionMarkerNoBatch(d, cid, slice, logValue, ok) ==
  /\ wal' = wal \cup {logValue}
  /\ collRecs' = IF ok THEN Put(collRecs, <<d, cid>>, slice) ELSE collRecs

\* RocksDBEngine::writeCreateCollectionMarker: log value and record in one batch
writeCreateCollectionMarker(d, cid, slice, logValue, ok) ==
  IF ok
  THEN /\ wal' = wal \cup {logValue}
       /\ collRecs' = Put(collRecs, <<d, cid>>, slice)
  ELSE UNCHANGED <<wal, collRecs>>

\* createCollection, lines 619-625: an integer objectId gets its counter
\* entry before the marker is written
createCollectionCounter(cid, objInt) ==
  IF objInt THEN counters \cup {objectIdOf(cid)} ELSE counters

\* RocksDBEngine::createCollection(vocbase, cid, parameters); the caller took
\* cid from the tick generator and registers the collection when no exception
\* is thrown
createCollection(d, name, objInt, ok) ==
  /\ phase = "running"
  /\ d \in DOMAIN vocbases
  /\ nextCid <= MaxColl
  /\ LET cid == nextCid
     IN /\ counters' = createCollectionCounter(cid, objInt)
        /\ writeCreateCollectionMarker(d, cid, CollSlice(cid, name, FALSE),
                                       LogValue("CollectionCreate", d, cid), ok)
        /\ ret' = IF ok THEN "ok" ELSE "error"
        /\ memColl' = IF ok
                      THEN Put(memColl, cid, [db |-> d, status |-> "loaded",
                                              name |-> name])
                      ELSE memColl
        /\ nextCid' = nextCid + 1
  /\ scan' = NoScan
  /\ UNCHANGED <<dbRecs, viewRecs, docs, idxEntries, phase, vocbases,
                 pendingDrop, drop, nextDb, memViews, regVars, shutVars, auxVars>>

\* RocksDBEngine::renameCollection(vocbase, collection, oldName): the caller has
\* given the collection its new name; a failed write is returned, not thrown
renameCollection(cid, newName, ok) ==
  /\ phase = "running"
  /\ cid \in DOMAIN memColl
  /\ memColl[cid].status = "loaded"
  /\ newName # memColl[cid].name
  /\ LET d == memColl[cid].db
     IN /\ writeCreateCollectionMarker(
             d, cid, CollSlice(cid, newName, FALSE),
             LogValue("CollectionRename", d, cid), ok)
        /\ ret' = IF ok THEN "ok" ELSE "error"
        /\ memColl' = IF ok THEN [memColl EXCEPT ![cid].name = newName]
                      ELSE memColl
  /\ scan' = NoScan
  /\ UNCHANGED <<dbRecs, viewRecs, docs, idxEntries, phase, vocbases,
                 pendingDrop, counters, drop, nextDb, nextCid, memViews, regVars, shutVars, auxVars>>

\* RocksDBEngine::changeCollection(vocbase, id, parameters, doSync): rewrites
\* the record with the collection's current properties, its deleted flag included
changeCollection(cid, deleted, ok) ==
  /\ phase = "running"
  /\ cid \in DOMAIN memColl
  /\ memColl[cid].status = "loaded"
  /\ LET d == memColl[cid].db
     IN /\ writeCreateCollectionMarker(
             d, cid, CollSlice(cid, memColl[cid].name, deleted),
             LogValue("CollectionChange", d, cid), ok)
        /\ ret' = IF ok THEN "ok" ELSE "error"
  /\ scan' = NoScan
  /\ UNCHANGED <<dbRecs, viewRecs, docs, idxEntries, phase, vocbases,
                 pendingDrop, memColl, counters, drop, nextDb, nextCid,
                 memViews, regVars, shutVars, auxVars>>

\* a committed document insert into a loaded collection: the document key, one
\* entry in each of the collection's indexes, and the collection's counter
insertDocument(cid, key) ==
  /\ phase = "running"
  /\ cid \in DOMAIN memColl
  /\ memColl[cid].status = "loaded"
  /\ <<objectIdOf(cid), key>> \notin docs
  /\ docs' = docs \cup {<<objectIdOf(cid), key>>}
  /\ idxEntries' = idxEntries \cup
        {<<indexesOf(cid)[j], key>> : j \in DOMAIN indexesOf(cid)}
  /\ counters' = counters \cup {objectIdOf(cid)}
  /\ scan' = NoScan
  /\ UNCHANGED <<dbRecs, collRecs, viewRecs, wal, phase, vocbases,
                 pendingDrop, memColl, drop, ret, nextDb, nextCid,
                 memViews, regVars, shutVars, auxVars>>

\* RocksDBCounterManager::removeCounter(objectId): the entry is removed
removeCounter(ctr, objectId) == ctr \ {objectId}

\* ---------------------------------------------------------- dropCollection
\* mutant: the batch holds the log value only, the record is not deleted
dropCollectionBatchNoDelete(d, cid) ==
  /\ wal' = wal \cup {LogValue("CollectionDrop", d, cid)}
  /\ collRecs' = collRecs

\* mutant: the batch rewrites the record with deleted = true where it should
\* delete it
dropCollectionBatchSoftDelete(d, cid) ==
  /\ wal' = wal \cup {LogValue("CollectionDrop", d, cid)}
  /\ collRecs' = IF <<d, cid>> \in DOMAIN collRecs
                 THEN [collRecs EXCEPT ![<<d, cid>>].deleted = TRUE]
                 ELSE collRecs

\* lines 693-700: the drop batch, the log value and the Delete of the record
dropCollectionBatch(d, cid) ==
  /\ wal' = wal \cup {LogValue("CollectionDrop", d, cid)}
  /\ collRecs' = Remove(collRecs, <<d, cid>>)

\* mutant: the error is returned after the record has been deleted
dropCollectionFailedPartial(d, cid) ==
  /\ ret' = "error"
  /\ drop' = NoDrop
  /\ collRecs' = Remove(collRecs, <<d, cid>>)
  /\ UNCHANGED wal

\* lines 703-706: persisting the drop failed, the call returns the error
dropCollectionFailed(d, cid) ==
  /\ ret' = "error"
  /\ drop' = NoDrop
  /\ UNCHANGED <<wal, collRecs>>

\* the caller has set the status to TRI_VOC_COL_STATUS_DELETED (line 691)
dropCollectionWrite(cid, ok) ==
  /\ phase = "running"
  /\ drop.pc = "idle"
  /\ cid \in DOMAIN memColl
  /\ LET d == memColl[cid].db
     IN /\ IF ok
           THEN /\ dropCollectionBatch(d, cid)
                /\ drop' = [pc |-> "counter", db |-> d, cid |-> cid,
                            left |-> indexesOf(cid)]
                /\ ret' = ret
           ELSE dropCollectionFailed(d, cid)
        /\ memColl' = [memColl EXCEPT ![cid].status = "deleted"]
  /\ scan' = NoScan
  /\ UNCHANGED <<dbRecs, viewRecs, docs, idxEntries, phase, vocbases,
                 pendingDrop, counters, nextDb, nextCid, memViews, regVars, shutVars, auxVars>>

\* line 715: _counterManager->removeCounter(coll->objectId())
dropCollectionCounter ==
  /\ phase = "running"
  /\ drop.pc = "counter"
  /\ counters' = removeCounter(counters, objectIdOf(drop.cid))
  /\ drop' = [drop EXCEPT !.pc = "docs"]
  /\ scan' = NoScan
  /\ UNCHANGED <<dbRecs, collRecs, viewRecs, docs, idxEntries, wal, phase,
                 vocbases, pendingDrop, memColl, ret, nextDb, nextCid,
                 memViews, regVars, shutVars, auxVars>>

\* mutant: the failure of a cleanup step is returned
dropCollectionCleanupEscalated(cid) == "error"

\* what dropCollection returns when a cleanup step failed (lines 727, 739)
dropCollectionCleanupFailed(cid) == "ok"

\* the call returns: the caller destroys the collection object
dropCollectionReturn(r) ==
  /\ ret' = r
  /\ drop' = [drop EXCEPT !.pc = "idle"]
  /\ memColl' = Remove(memColl, drop.cid)

\* lines 717-728: removeLargeRange over the collection's documents
dropCollectionDocs(ok) ==
  /\ phase = "running"
  /\ drop.pc = "docs"
  /\ IF ok
     THEN /\ docs' = removeLargeRange(docs, objectIdOf(drop.cid))
          /\ drop' = [drop EXCEPT !.pc = "indexes"]
          /\ UNCHANGED <<ret, memColl>>
     ELSE /\ dropCollectionReturn(dropCollectionCleanupFailed(drop.cid))
          /\ UNCHANGED docs
  /\ scan' = NoScan
  /\ UNCHANGED <<dbRecs, collRecs, viewRecs, idxEntries, wal, phase,
                 vocbases, pendingDrop, counters, nextDb, nextCid,
                 memViews, regVars, shutVars, auxVars>>

\* Index::drop of a RocksDB index: the index's entries are removed
indexDrop(entries, objectId) == removeLargeRange(entries, objectId)

\* lines 730-741: one round of the loop over coll->getIndexes()
dropCollectionIndex(ok) ==
  /\ phase = "running"
  /\ drop.pc = "indexes"
  /\ drop.left # <<>>
  /\ IF ok
     THEN /\ idxEntries' = indexDrop(idxEntries, Head(drop.left))
          /\ drop' = [drop EXCEPT !.left = Tail(drop.left)]
          /\ UNCHANGED <<ret, memColl>>
     ELSE /\ dropCollectionReturn(dropCollectionCleanupFailed(drop.cid))
          /\ UNCHANGED idxEntries
  /\ scan' = NoScan
  /\ UNCHANGED <<dbRecs, collRecs, viewRecs, docs, wal, phase,
                 vocbases, pendingDrop, counters, nextDb, nextCid,
                 memViews, regVars, shutVars, auxVars>>

\* lines 742-746: coll->compact() and the final return
dropCollectionCompact ==
  /\ phase = "running"
  /\ drop.pc = "indexes"
  /\ drop.left = <<>>
  /\ dropCollectionReturn("ok")
  /\ scan' = NoScan
  /\ UNCHANGED <<storeVars, phase, vocbases, pendingDrop, counters, nextDb,
                 nextCid, memViews, regVars, shutVars, auxVars>>

\* ------------------------------------------------------------ the keyspace
\* the store and the counter manager as one value, for the operations that
\* are computed over them
World ==
  [db |-> dbRecs, coll |-> collRecs, view |-> viewRecs, docs |-> docs,
   idx |-> idxEntries, ctr |-> counters]

SetWorld(w) ==
  /\ dbRecs' = w.db
  /\ collRecs' = w.coll
  /\ viewRecs' = w.view
  /\ docs' = w.docs
  /\ idxEntries' = w.idx
  /\ counters' = w.ctr

\* a variant of the test that takes every record for a deleted one
isDeletedAny(slice) == slice.deleted \in {"true", "false", "absent"}

\* VelocyPackHelper::getBooleanValue(slice, "deleted", false)
isDeleted(slice) == slice.deleted = "true"

DbSlice(idStr, name, deleted) ==
  [idStr |-> idStr, name |-> name, deleted |-> deleted]
DbNames == {"d"}
\* the shapes of slice a caller hands to writeCreateDatabaseMarker
DbSlices ==
  {DbSlice(TRUE, "d", "absent"), DbSlice(FALSE, "d", "false"),
   DbSlice(TRUE, NotAString, "absent"), DbSlice(TRUE, NotAString, "true"),
   DbSlice(FALSE, "d", "true")}

\* RocksDBEngine::writeCreateDatabaseMarker(id, slice): one Put
writeCreateDatabaseMarker(recs, id, slice) == Put(recs, id, slice)

\* ------------------------------------------------------- dropDatabase(id)
Op(kind, a, b) == [kind |-> kind, a |-> a, b |-> b]

\* rocksutils::viewKVPairs(id), collectionKVPairs(id): the records of the
\* database, in key order
viewKVPairs(w, id) == SortedSeq({v \in VIds : <<id, v>> \in w.view})
collectionKVPairs(w, id) == SortedSeq({c \in CIds : <<id, c>> \in DOMAIN w.coll})

\* lines 1031-1048: per index of the record, the range removal and the
\* removal of val.first, which is the key of the collection record
RECURSIVE dropDatabaseIndexes(_, _)
dropDatabaseIndexes(cid, indexes) ==
  IF indexes = <<>> THEN <<>>
  ELSE <<Op("idxRange", Head(indexes), 0), Op("idxRec", cid, 0)>>
       \o dropDatabaseIndexes(cid, Tail(indexes))

\* lines 1029-1064: what the loop does for one collection record
dropDatabaseCollection(cid, slice) ==
  dropDatabaseIndexes(cid, slice.indexes)
  \o <<Op("docs", slice.objectId, 0), Op("collRec", cid, slice.objectId)>>

RECURSIVE dropDatabaseCollections(_, _, _)
dropDatabaseCollections(w, id, cids) ==
  IF cids = <<>> THEN <<>>
  ELSE dropDatabaseCollection(Head(cids), w.coll[<<id, Head(cids)>>])
       \o dropDatabaseCollections(w, id, Tail(cids))

\* the removals of dropDatabase(id), in the order of lines 1020-1071
dropDatabasePlan(w, id) ==
  [j \in DOMAIN viewKVPairs(w, id) |-> Op("view", viewKVPairs(w, id)[j], 0)]
  \o dropDatabaseCollections(w, id, collectionKVPairs(w, id))
  \o <<Op("db", id, 0)>>

\* one removal that succeeds
dropDatabaseStep(w, id, op) ==
  CASE op.kind = "view" -> [w EXCEPT !.view = @ \ {<<id, op.a>>}]
    [] op.kind = "idxRange" -> [w EXCEPT !.idx = removeLargeRange(@, op.a)]
    [] op.kind = "idxRec" -> [w EXCEPT !.coll = Remove(@, <<id, op.a>>)]
    [] op.kind = "docs" -> [w EXCEPT !.docs = removeLargeRange(@, op.a)]
    [] op.kind = "collRec" ->
         [w EXCEPT !.ctr = removeCounter(@, op.b),
                   !.coll = Remove(@, <<id, op.a>>)]
    [] op.kind = "db" -> [w EXCEPT !.db = Remove(@, id)]

\* one removal that fails: lines 1059-1063 have removed the counter before
dropDatabaseStepFailed(w, id, op) ==
  IF op.kind = "collRec"
  THEN [w EXCEPT !.ctr = removeCounter(@, op.b)]
  ELSE w

RECURSIVE dropDatabaseRun(_, _, _, _)
dropDatabaseRun(w, id, plan, good) ==
  IF plan = <<>> THEN [w |-> w, res |-> "ok"]
  ELSE IF good = 0
       THEN [w |-> dropDatabaseStepFailed(w, id, Head(plan)), res |-> "error"]
       ELSE dropDatabaseRun(dropDatabaseStep(w, id, Head(plan)), id,
                            Tail(plan), good - 1)

\* the longest plan a database of this model has
MaxPlan == MaxView + MaxColl * (2 * MaxIdx + 2) + 1

\* RocksDBEngine::dropDatabase(TRI_voc_tick_t id), whose first `good` removals
\* succeed: the world it leaves and the Result it returns
dropDatabaseId(w, id, good) == dropDatabaseRun(w, id, dropDatabasePlan(w, id), good)

\* --------------------------------------------------------- the startup scan
\* mutant: the continue is missing, the deleted record is returned as well
getDatabasesDeletedNoContinue(acc, id, good) ==
  [acc EXCEPT !.w = dropDatabaseId(acc.w, id, good[id]).w,
              !.dropped = @ \cup {id},
              !.result = Append(@, id)]

\* lines 335-347 of getDatabases: a deleted record is skipped, after
\* dropDatabase(id) has run for it
getDatabasesDeleted(acc, id, good) ==
  [acc EXCEPT !.w = dropDatabaseId(acc.w, id, good[id]).w,
              !.dropped = @ \cup {id}]

\* line 358: result.add(slice)
getDatabasesAdd(acc, id) == [acc EXCEPT !.result = Append(@, id)]

\* a variant of the loop that skips a malformed record and goes on
RECURSIVE getDatabasesLoopSkipping(_, _, _, _)
getDatabasesLoopSkipping(acc, snap, ids, good) ==
  IF ids = <<>> THEN acc
  ELSE LET id == Head(ids)
           slice == snap[id]
       IN IF ~slice.idStr
          THEN getDatabasesLoopSkipping(acc, snap, Tail(ids), good)
          ELSE IF isDeleted(slice)
          THEN getDatabasesLoopSkipping(getDatabasesDeleted(acc, id, good),
                                        snap, Tail(ids), good)
          ELSE IF slice.name = NotAString
          THEN getDatabasesLoopSkipping(acc, snap, Tail(ids), good)
          ELSE getDatabasesLoopSkipping(getDatabasesAdd(acc, id), snap,
                                        Tail(ids), good)

\* the loop of getDatabases over the records the iterator sees (snap), in key
\* order; a malformed record throws and ends the scan
RECURSIVE getDatabasesLoop(_, _, _, _)
getDatabasesLoop(acc, snap, ids, good) ==
  IF ids = <<>> THEN acc
  ELSE LET id == Head(ids)
           slice == snap[id]
       IN IF ~slice.idStr
          THEN [acc EXCEPT !.threw = TRUE]
          ELSE IF isDeleted(slice)
          THEN getDatabasesLoop(getDatabasesDeleted(acc, id, good), snap,
                                Tail(ids), good)
          ELSE IF slice.name = NotAString
          THEN [acc EXCEPT !.threw = TRUE]
          ELSE getDatabasesLoop(getDatabasesAdd(acc, id), snap, Tail(ids), good)

\* RocksDBEngine::getDatabases; good[id] tells how much of dropDatabase(id)
\* succeeds
getDatabases(w, good) ==
  getDatabasesLoop([w |-> w, threw |-> FALSE, result |-> <<>>, dropped |-> {}],
                   w.db, SortedSeq(DOMAIN w.db), good)

ScanOf(g) == [threw |-> g.threw, result |-> g.result, dropped |-> g.dropped]
Goods == [DbIds -> 0..MaxPlan]

\* the keys <<databaseId, id>> of one entry type in the order of the iterator
RECURSIVE SortedKeys(_)
SortedKeys(S) ==
  IF S = {} THEN <<>>
  ELSE LET m == CHOOSE x \in S : \A y \in S :
                  x[1] < y[1] \/ (x[1] = y[1] /\ x[2] <= y[2])
       IN <<m>> \o SortedKeys(S \ {m})

\* mutant: the test of getViews, line 443
getCollectionsSkipNegated(id, keyDb) == id # (IF keyDb = 0 THEN 1 ELSE 0)

\* line 416 of getCollectionsAndIndexes: the record of another database
getCollectionsSkip(id, keyDb) == id # keyDb

\* lines 414-427: the loop of getCollectionsAndIndexes over the collection
\* records; the keys of the slices added to the result
RECURSIVE getCollectionsLoop(_, _, _)
getCollectionsLoop(recs, keys, id) ==
  IF keys = <<>> THEN <<>>
  ELSE IF getCollectionsSkip(id, Head(keys)[1])
  THEN getCollectionsLoop(recs, Tail(keys), id)
  ELSE IF recs[Head(keys)].deleted
  THEN getCollectionsLoop(recs, Tail(keys), id)
  ELSE <<Head(keys)>> \o getCollectionsLoop(recs, Tail(keys), id)

\* RocksDBEngine::getCollectionsAndIndexes(vocbase): the result array
getCollectionsResult(recs, id) ==
  getCollectionsLoop(recs, SortedKeys(DOMAIN recs), id)

\* RocksDBEngine::getCollectionsAndIndexes(vocbase): the cids returned
getCollectionsAndIndexes(recs, id) ==
  {getCollectionsResult(recs, id)[j][2] :
     j \in DOMAIN getCollectionsResult(recs, id)}

\* line 443 of getViews: vocbase->id() != !RocksDBKey::databaseId(key)
getViewsSkip(id, keyDb) == id # (IF keyDb = 0 THEN 1 ELSE 0)

\* lines 441-454: the loop of getViews over the view records, whose value is
\* an empty object (no deleted flag); the keys of the slices added
RECURSIVE getViewsLoop(_, _)
getViewsLoop(keys, id) ==
  IF keys = <<>> THEN <<>>
  ELSE IF getViewsSkip(id, Head(keys)[1])
  THEN getViewsLoop(Tail(keys), id)
  ELSE <<Head(keys)>> \o getViewsLoop(Tail(keys), id)

\* RocksDBEngine::getViews(vocbase): the result array
getViewsResult(views, id) == getViewsLoop(SortedKeys(views), id)

\* RocksDBEngine::getViews(vocbase): the view ids returned
getViews(views, id) ==
  {getViewsResult(views, id)[j][2] : j \in DOMAIN getViewsResult(views, id)}

\* a variant of the test that never finds the system database
systemDatabaseExistsNever(w, result) == FALSE

\* RocksDBEngine::systemDatabaseExists, over the list getDatabases returned
systemDatabaseExists(w, result) ==
  \E j \in DOMAIN result : w.db[result[j]].name = SystemDatabase

\* RocksDBEngine::start: the store is opened, a new counter manager is built,
\* and the system database is added when the scan finds none
start(good, ok) ==
  /\ phase = "down"
  /\ LET g == getDatabases([World EXCEPT !.ctr = {}], good)
     IN /\ scan' = ScanOf(g)
        /\ IF g.threw
           THEN /\ SetWorld([g.w EXCEPT !.ctr = {}])
                /\ UNCHANGED <<phase, nextDb>>
           ELSE IF systemDatabaseExists(g.w, g.result)
           THEN /\ SetWorld(g.w)
                /\ phase' = "started"
                /\ UNCHANGED nextDb
           ELSE /\ nextDb <= MaxDb
                /\ nextDb' = nextDb + 1
                /\ IF ok
                   THEN /\ SetWorld([g.w EXCEPT !.db = writeCreateDatabaseMarker(
                               @, nextDb, DbSlice(TRUE, SystemDatabase, "false"))])
                        /\ phase' = "started"
                   ELSE /\ SetWorld([g.w EXCEPT !.ctr = {}])
                        /\ UNCHANGED phase
  /\ UNCHANGED <<wal, vocbases, pendingDrop, memColl, drop, ret, nextCid,
                 memViews, regVars, shutVars, auxVars>>

\* RocksDBEngine::openExistingDatabase, for every database of the list: the
\* collections and views the scans return are registered
openExistingDatabases(w, result) ==
  /\ vocbases' = [id \in {result[j] : j \in DOMAIN result} |-> w.db[id].name]
  /\ memColl' =
       LET open == {<<result[j], c>> : j \in DOMAIN result, c \in CIds}
           live == {dc \in open : dc[2] \in getCollectionsAndIndexes(w.coll, dc[1])}
       IN [c \in {dc[2] : dc \in live} |->
             LET d == CHOOSE d \in DbIds : <<d, c>> \in live
             IN [db |-> d, status |-> "loaded", name |-> w.coll[<<d, c>>].name]]
  /\ memViews' = {dv \in {<<result[j], v>> : j \in DOMAIN result, v \in VIds} :
                    dv[2] \in getViews(w.view, dv[1])}

\* the database feature opens the databases: getDatabases, then openDatabase
\* for every slice of the list; an exception ends the process
openDatabases(good) ==
  /\ phase = "started"
  /\ LET g == getDatabases(World, good)
     IN /\ scan' = ScanOf(g)
        /\ IF g.threw
           THEN /\ SetWorld([g.w EXCEPT !.ctr = {}])
                /\ phase' = "down"
                /\ UNCHANGED <<vocbases, memColl, memViews>>
           ELSE /\ SetWorld(g.w)
                /\ phase' = "running"
                /\ openExistingDatabases(g.w, g.result)
  /\ UNCHANGED <<wal, pendingDrop, drop, ret, nextDb, nextCid, regVars, shutVars, auxVars>>

\* the process dies: everything in memory is lost, the store is kept
crash ==
  /\ phase # "down"
  /\ phase' = "down"
  /\ vocbases' = EmptyFn
  /\ pendingDrop' = {}
  /\ memColl' = EmptyFn
  /\ memViews' = {}
  /\ counters' = {}
  /\ drop' = NoDrop
  /\ ret' = "ok"
  /\ scan' = NoScan
  /\ UNCHANGED <<storeVars, nextDb, nextCid, regVars, shutVars, auxVars>>

\* ------------------------------------------------ databases: create and drop
\* the creation of a database: RocksDBEngine::createDatabase builds the
\* vocbase, writeCreateDatabaseMarker persists it
createDatabase(name, ok) ==
  /\ phase = "running"
  /\ nextDb <= MaxDb
  /\ nextDb' = nextDb + 1
  /\ IF ok
     THEN /\ dbRecs' = writeCreateDatabaseMarker(dbRecs, nextDb,
                                                DbSlice(TRUE, name, "false"))
          /\ vocbases' = Put(vocbases, nextDb, name)
     ELSE UNCHANGED <<dbRecs, vocbases>>
  /\ ret' = IF ok THEN "ok" ELSE "error"
  /\ scan' = NoScan
  /\ UNCHANGED <<collRecs, viewRecs, docs, idxEntries, wal, phase,
                 pendingDrop, memColl, counters, drop, nextCid, memViews,
                 regVars, shutVars, auxVars>>

\* writeCreateDatabaseMarker called with a slice of any shape: the engine
\* stores what it is given
writeDatabaseMarker(slice, ok) ==
  /\ phase = "running"
  /\ nextDb <= MaxDb
  /\ nextDb' = nextDb + 1
  /\ dbRecs' = IF ok THEN writeCreateDatabaseMarker(dbRecs, nextDb, slice)
               ELSE dbRecs
  /\ ret' = IF ok THEN "ok" ELSE "error"
  /\ scan' = NoScan
  /\ UNCHANGED <<collRecs, viewRecs, docs, idxEntries, wal, phase,
                 vocbases, pendingDrop, memColl, counters, drop, nextCid,
                 memViews, regVars, shutVars, auxVars>>

\* RocksDBEngine::prepareDropDatabase(vocbase, useWriteMarker, status); when
\* the status is no error the caller unregisters the database
prepareDropDatabase(id, ok) ==
  /\ phase = "running"
  /\ id \in DOMAIN vocbases
  /\ vocbases[id] # SystemDatabase
  /\ IF ok
     THEN /\ dbRecs' = writeCreateDatabaseMarker(
                          dbRecs, id, DbSlice(TRUE, vocbases[id], "true"))
          /\ vocbases' = Remove(vocbases, id)
          /\ pendingDrop' = pendingDrop \cup {id}
          /\ memColl' = [c \in {x \in DOMAIN memColl : memColl[x].db # id}
                           |-> memColl[c]]
          /\ memViews' = {dv \in memViews : dv[1] # id}
     ELSE UNCHANGED <<dbRecs, vocbases, pendingDrop, memColl, memViews>>
  /\ ret' = IF ok THEN "ok" ELSE "error"
  /\ scan' = NoScan
  /\ UNCHANGED <<collRecs, viewRecs, docs, idxEntries, wal, phase,
                 counters, drop, nextDb, nextCid, regVars, shutVars, auxVars>>

\* what dropDatabase(vocbase) returns: the Result of dropDatabase(id)
dropDatabaseResult(r) == r.res

\* RocksDBEngine::dropDatabase(TRI_vocbase_t*), run for a database whose
\* prepareDropDatabase succeeded
dropDatabase(id, good) ==
  /\ phase = "running"
  /\ id \in pendingDrop
  /\ LET r == dropDatabaseId(World, id, good)
     IN /\ SetWorld(r.w)
        /\ ret' = dropDatabaseResult(r)
  /\ pendingDrop' = pendingDrop \ {id}
  /\ scan' = NoScan
  /\ UNCHANGED <<wal, phase, vocbases, memColl, drop, nextDb, nextCid,
                 memViews, regVars, shutVars, auxVars>>

\* ------------------------------------------------------------------- views
\* RocksDBEngine::createView(vocbase, id, view): one Put of an empty object
createView(d, v, ok) ==
  /\ phase = "running"
  /\ d \in DOMAIN vocbases
  /\ <<d, v>> \notin viewRecs
  /\ IF ok
     THEN /\ viewRecs' = viewRecs \cup {<<d, v>>}
          /\ memViews' = memViews \cup {<<d, v>>}
     ELSE UNCHANGED <<viewRecs, memViews>>
  /\ ret' = IF ok THEN "ok" ELSE "error"
  /\ scan' = NoScan
  /\ UNCHANGED <<dbRecs, collRecs, docs, idxEntries, wal, phase,
                 vocbases, pendingDrop, memColl, counters, drop, nextDb,
                 nextCid, regVars, shutVars, auxVars>>

\* RocksDBEngine::dropView(vocbase, view): nothing is done, success is
\* returned, and the caller forgets the view
dropView(d, v) ==
  /\ phase = "running"
  /\ <<d, v>> \in memViews
  /\ memViews' = memViews \ {<<d, v>>}
  /\ ret' = "ok"
  /\ scan' = NoScan
  /\ UNCHANGED <<storeVars, phase, vocbases, pendingDrop, memColl, counters,
                 drop, nextDb, nextCid, regVars, shutVars, auxVars>>

\* ------------------------------------------------------- the specification
InitStore ==
  /\ dbRecs = EmptyFn
  /\ collRecs = EmptyFn
  /\ viewRecs = {}
  /\ docs = {}
  /\ idxEntries = {}
  /\ wal = {}

InitProc ==
  /\ phase = "down"
  /\ vocbases = EmptyFn
  /\ pendingDrop = {}
  /\ memColl = EmptyFn
  /\ memViews = {}
  /\ counters = {}
  /\ drop = NoDrop
  /\ ret = "ok"
  /\ scan = NoScan
  /\ nextDb = 1
  /\ nextCid = 1

InitReg ==
  /\ collectionMap = EmptyFn
  /\ lastReg = EmptyFn
  /\ lookup = [objectId |-> 0, result |-> <<0, 0>>]

\* the threads that call into the engine
Threads == {1, 2}
IdleThread == [op |-> "idle", objectId |-> 0, pair |-> <<0, 0>>, raced |-> FALSE]

InitThr ==
  /\ regThreads = [t \in Threads |-> IdleThread]

NoList == [kind |-> "none", id |-> 0, result |-> <<>>]

InitList ==
  /\ listed = NoList

InitOid ==
  /\ oidTick = 0
  /\ oidAssigned = <<>>

NoSnap == [taken |-> FALSE, count |-> 0, seq |-> 0]

InitCtr ==
  /\ ctrWal = <<>>
  /\ ctrMem = [up |-> TRUE, recovered |-> FALSE, count |-> 0, seq |-> 0]
  /\ ctrDisk = [count |-> 0, seq |-> 0]
  /\ ctrSnap = NoSnap
  /\ ctrStaged = 0

\* the constructor, lines 91-94: intermediate commits are off
InitTx ==
  /\ txEnabled = FALSE
  /\ txState = "none"
  /\ txOps = {}
  /\ txStaged = {}
  /\ txSize = 0
  /\ txVisible = {}
  /\ txDiscarded = {}
  /\ txCrossed = FALSE

NoRange == [op |-> "none", tag |-> 0, objectId |-> 0, status |-> "ok",
            before |-> {}, keys |-> {}]

InitKv ==
  /\ kvKeys = {}
  /\ kvLast = NoRange

NoOption == [name |-> "none", status |-> "ok", value |-> "none",
             before |-> <<>>]
NoTransactionState == <<>>

\* the constructor, lines 91-94
InitOpt ==
  /\ optTable = <<>>
  /\ optMember = [maxSize |-> "uint64 max", commitSize |-> "32MB",
                  commitCount |-> "100000", enabled |-> "false"]
  /\ optLast = NoOption
  /\ optTx = NoTransactionState

\* the key of a pool that has no record (a null _key)
NoKey == 0
NumThreads == 2
MaxLockRecords == 2

NoCall == [op |-> "none", name |-> "none", arg |-> "none",
           result |-> "none", pre |-> <<>>, loaded |-> <<>>]

\* the constructor of the analyzer feature, lines 402-409
InitAn ==
  /\ anStarted = FALSE
  /\ anAnalyzers = <<>>
  /\ anCollection = FALSE
  /\ anStore = <<>>
  /\ anLast = NoCall

NoThread == 0

\* the analyzer feature as constructed, seen by its threads
InitMx ==
  /\ mxPc = [t \in 1..NumThreads |-> "idle"]
  /\ mxLock = [owner |-> NoThread, depth |-> 0]
  /\ mxStarted = FALSE
  /\ mxRegistered = FALSE
  /\ mxKey = NoKey
  /\ mxRecords = {}
  /\ mxVisit = [todo |-> {}, initialized |-> FALSE]

\* irs::string_ref::nil, and a string_ref that refers to data
NilRef == [null |-> TRUE, chars |-> <<>>]
Ref(chars) == [null |-> FALSE, chars |-> chars]

\* IdentityTokenizer::IdentityTokenizer, lines 90-94
InitTok ==
  /\ tokEmpty = TRUE
  /\ tokValue = NilRef
  /\ tokTerm = NilRef
  /\ tokLast = [op |-> "none", data |-> NilRef, result |-> FALSE]

NoGetMore == [op |-> "none", batchSize |-> 0, limit |-> 0, iterator |-> 0,
              returned |-> 0, ret |-> "none"]

\* no cursor yet
InitCur ==
  /\ curLimit = 0
  /\ curHasMore = FALSE
  /\ curBatchSize = 0
  /\ curIterator = 0
  /\ curInitial = 0
  /\ curTotal = 0
  /\ curLast = NoGetMore

InitAux ==
  /\ InitThr /\ InitList /\ InitOid /\ InitCtr /\ InitTx /\ InitKv /\ InitOpt
  /\ InitAn /\ InitMx /\ InitTok /\ InitCur

InitShut ==
  /\ enabled \in BOOLEAN
  /\ sdb = "null"
  /\ bgThread = "none"
  /\ counterManager = "none"
  /\ cmCount = [objectId \in {1, 2} |-> 0]
  /\ cmStored = [objectId \in {1, 2} |-> 0]
  /\ upc = "idle"
  /\ flushed = FALSE

Init == InitStore /\ InitProc /\ InitReg /\ InitShut /\ enabled /\ InitAux

Next ==
  \/ \E good \in Goods, ok \in BOOLEAN : start(good, ok)
  \/ \E good \in Goods : openDatabases(good)
  \/ crash
  \/ \E name \in DbNames, ok \in BOOLEAN : createDatabase(name, ok)
  \/ \E slice \in DbSlices, ok \in BOOLEAN : writeDatabaseMarker(slice, ok)
  \/ \E id \in DbIds, ok \in BOOLEAN : prepareDropDatabase(id, ok)
  \/ \E id \in DbIds, good \in 0..MaxPlan : dropDatabase(id, good)
  \/ \E d \in DbIds, name \in CollNames, objInt \in BOOLEAN, ok \in BOOLEAN :
        createCollection(d, name, objInt, ok)
  \/ \E cid \in CIds, name \in CollNames, ok \in BOOLEAN :
        renameCollection(cid, name, ok)
  \/ \E cid \in CIds, deleted \in BOOLEAN, ok \in BOOLEAN :
        changeCollection(cid, deleted, ok)
  \/ \E cid \in CIds, key \in Keys : insertDocument(cid, key)
  \/ \E cid \in CIds, ok \in BOOLEAN : dropCollectionWrite(cid, ok)
  \/ dropCollectionCounter
  \/ \E ok \in BOOLEAN : dropCollectionDocs(ok)
  \/ \E ok \in BOOLEAN : dropCollectionIndex(ok)
  \/ dropCollectionCompact
  \/ \E d \in DbIds, v \in VIds, ok \in BOOLEAN : createView(d, v, ok)
  \/ \E d \in DbIds, v \in VIds : dropView(d, v)

Spec == Init /\ [][Next]_vars

\* ------------------------------------------------------------------ claims
Range(seq) == {seq[j] : j \in DOMAIN seq}
Count(seq, x) == Cardinality({j \in DOMAIN seq : seq[j] = x})

\* the drop batch of collection cid has been committed
DropCommitted(cid) ==
  \E d \in DbIds : LogValue("CollectionDrop", d, cid) \in wal

\* the keys a prefix scan over the collection's objectIds returns
DocRange(keys, cid) == InBounds(keys, objectIdOf(cid))
IdxRange(keys, cid) ==
  UNION {InBounds(keys, indexesOf(cid)[j]) : j \in DOMAIN indexesOf(cid)}

dropCollectionStep ==
  \/ \E cid \in CIds, ok \in BOOLEAN : dropCollectionWrite(cid, ok)
  \/ dropCollectionCounter
  \/ \E ok \in BOOLEAN : dropCollectionDocs(ok)
  \/ \E ok \in BOOLEAN : dropCollectionIndex(ok)
  \/ dropCollectionCompact

\* C1: a dropCollection whose drop batch fails returns the error and changes
\* nothing in the keyspace or the counter manager; and no step of
\* dropCollection removes a counter entry, a document key or an index key of
\* a collection whose drop batch has not been committed before.
C1_FailedDropChangesNothing ==
  [][ /\ \A cid \in CIds :
           dropCollectionWrite(cid, FALSE) =>
             /\ ret' = "error"
             /\ UNCHANGED <<storeVars, counters>>
      /\ dropCollectionStep =>
           \A cid \in CIds :
             (\/ objectIdOf(cid) \in counters \ counters'
              \/ DocRange(docs', cid) # DocRange(docs, cid)
              \/ IdxRange(idxEntries', cid) # IdxRange(idxEntries, cid))
             => DropCommitted(cid) ]_vars

\* a failed drop has returned: the collection still has its record, its
\* documents, its index entries and its counter
C1_Witness ==
  \E cid \in DOMAIN memColl :
    /\ memColl[cid].status = "deleted"
    /\ drop.pc = "idle"
    /\ ret = "error"
    /\ <<memColl[cid].db, cid>> \in DOMAIN collRecs
    /\ DocRange(docs, cid) # {}
    /\ IdxRange(idxEntries, cid) # {}
    /\ objectIdOf(cid) \in counters

\* a startup scan has just completed
ScanCompleted == phase = "running" /\ scan.result # <<>>

startupStep ==
  \/ \E good \in Goods, ok \in BOOLEAN : start(good, ok)
  \/ \E good \in Goods : openDatabases(good)

C3_DroppedNeverListed ==
  \A d \in DbIds, cid \in CIds :
    LogValue("CollectionDrop", d, cid) \in wal =>
      cid \notin getCollectionsAndIndexes(collRecs, d)

\* the drop was committed, the cleanup did not run, and the process has been
\* restarted
C3_Witness ==
  /\ phase = "running"
  /\ drop = NoDrop
  /\ \E cid \in CIds :
       /\ DropCommitted(cid)
       /\ cid \notin DOMAIN memColl
       /\ DocRange(docs, cid) # {}

\* C4: a getDatabases that returns leaves every record with deleted = true out
\* of its list and has run dropDatabase(id) for it, and returns every record
\* that is not deleted and has a string id and a string name exactly once.
C4_ScanSkipsDeleted ==
  [][ (startupStep /\ ~scan'.threw) =>
        \A id \in DOMAIN dbRecs :
          /\ isDeleted(dbRecs[id]) =>
               /\ id \notin Range(scan'.result)
               /\ id \in scan'.dropped
          /\ (~isDeleted(dbRecs[id]) /\ dbRecs[id].idStr
                /\ dbRecs[id].name # NotAString) =>
               /\ Count(scan'.result, id) = 1
               /\ id \notin scan'.dropped ]_vars

\* a scan has returned one database and re-triggered the drop of another
C4_Witness ==
  /\ ~scan.threw
  /\ scan.result # <<>>
  /\ scan.dropped # {}

\* C5, as stated: a createCollection whose marker write fails throws and
\* leaves no record and no new counter entry.
C5_FailedCreateLeavesNothing ==
  [][ \A d \in DbIds, name \in CollNames, objInt \in BOOLEAN :
        createCollection(d, name, objInt, FALSE) =>
          /\ ret' = "error"
          /\ collRecs' = collRecs
          /\ counters' = counters ]_vars

\* C6: renameCollection rewrites the one record under the key (databaseId,
\* cid) together with its log value, or changes nothing and returns the error;
\* it touches no document key, no index key, no counter and no registry entry.
C6_RenameRewritesOneRecord ==
  [][ \A cid \in CIds, name \in CollNames, ok \in BOOLEAN :
        renameCollection(cid, name, ok) =>
          LET key == <<memColl[cid].db, cid>>
          IN /\ key \in DOMAIN collRecs
             /\ DOMAIN collRecs' = DOMAIN collRecs
             /\ \A k \in DOMAIN collRecs \ {key} : collRecs'[k] = collRecs[k]
             /\ collRecs'[key].objectId = collRecs[key].objectId
             /\ IF ret' = "ok"
                THEN /\ collRecs'[key].name = name
                     /\ LogValue("CollectionRename", key[1], cid) \in wal'
                ELSE /\ collRecs'[key] = collRecs[key]
                     /\ wal' = wal
             /\ (collRecs' = collRecs) <=> (ret' = "error")
             /\ UNCHANGED <<dbRecs, viewRecs, docs, idxEntries, counters,
                            collectionMap>> ]_vars

\* a collection with documents has been renamed
C6_Witness ==
  \E cid \in DOMAIN memColl :
    /\ LogValue("CollectionRename", memColl[cid].db, cid) \in wal
    /\ ret = "ok"
    /\ DocRange(docs, cid) # {}
    /\ <<memColl[cid].db, cid>> \in DOMAIN collRecs
    /\ collRecs[<<memColl[cid].db, cid>>].name = memColl[cid].name

\* C7: a dropCollection that got past its drop batch returns success.
C7_CleanupFailureAbsorbed ==
  [][ (dropCollectionStep /\ drop.pc # "idle" /\ drop'.pc = "idle")
        => ret' = "ok" ]_vars

\* the range deletion failed after the commit and the call has returned
C7_Witness ==
  /\ phase = "running"
  /\ drop.pc = "idle"
  /\ ret = "ok"
  /\ \E cid \in CIds :
       /\ DropCommitted(cid)
       /\ drop.cid = cid
       /\ cid \notin DOMAIN memColl
       /\ objectIdOf(cid) \notin counters
       /\ DocRange(docs, cid) # {}

\* C8, as stated: dropDatabase(vocbase) returns no error, whatever removal of
\* the cleanup fails.
C8_DropDatabaseNeverFails ==
  [][ \A id \in DbIds, good \in 0..MaxPlan :
        dropDatabase(id, good) => ret' = "ok" ]_vars

\* ------------------------------------------------------ the object registry
\* the objectIds, database ids and collection ids the registry is called with
MaxObjectId == 2
RegObjectIds == 0..MaxObjectId
RegPairs == (1..2) \X (1..2)

\* mutant: an entry that exists is kept (emplace where operator[] is meant)
addCollectionMappingEmplace(map, objectId, did, cid) ==
  IF objectId = 0 \/ objectId \in DOMAIN map THEN map
  ELSE Put(map, objectId, <<did, cid>>)

\* lines 943-947: _collectionMap[objectId] = std::make_pair(did, cid)
addCollectionMappingTo(map, objectId, did, cid) ==
  IF objectId = 0 THEN map ELSE Put(map, objectId, <<did, cid>>)

\* RocksDBEngine::addCollectionMapping(objectId, did, cid)
addCollectionMapping(objectId, did, cid) ==
  /\ collectionMap' = addCollectionMappingTo(collectionMap, objectId, did, cid)
  /\ lastReg' = Put(lastReg, objectId, <<did, cid>>)
  /\ UNCHANGED <<lookup, storeVars, procVars, shutVars, auxVars>>

\* lines 952-957: the entry found, or {0, 0}
mapObjectToCollectionIn(map, objectId) ==
  IF objectId \in DOMAIN map THEN map[objectId] ELSE <<0, 0>>

\* RocksDBEngine::mapObjectToCollection(objectId)
mapObjectToCollection(objectId) ==
  /\ lookup' = [objectId |-> objectId,
                result |-> mapObjectToCollectionIn(collectionMap, objectId)]
  /\ UNCHANGED <<collectionMap, lastReg, storeVars, procVars, shutVars, auxVars>>

NextRegistry ==
  \/ \E objectId \in RegObjectIds, p \in RegPairs :
        addCollectionMapping(objectId, p[1], p[2])
  \/ \E objectId \in RegObjectIds : mapObjectToCollection(objectId)

SpecRegistry == Init /\ [][NextRegistry]_vars

\* C10: a lookup returns the pair of the last register of its objectId, or
\* (0, 0) when there was none or the objectId is 0, and changes nothing; a
\* register repeated changes nothing more, and a register of objectId 0
\* changes nothing at all.
C10_RegistryIsMap ==
  /\ [][ \A objectId \in RegObjectIds :
           mapObjectToCollection(objectId) =>
             /\ lookup'.result =
                  IF objectId # 0 /\ objectId \in DOMAIN lastReg
                  THEN lastReg[objectId] ELSE <<0, 0>>
             /\ collectionMap' = collectionMap ]_vars
  /\ [][ \A objectId \in RegObjectIds, p \in RegPairs :
           addCollectionMapping(objectId, p[1], p[2]) =>
             /\ addCollectionMappingTo(collectionMap', objectId, p[1], p[2])
                  = collectionMap'
             /\ objectId = 0 => collectionMap' = collectionMap
             /\ \A o \in RegObjectIds \ {objectId} :
                  mapObjectToCollectionIn(collectionMap', o)
                    = mapObjectToCollectionIn(collectionMap, o) ]_vars

\* an objectId registered with one pair has been registered again with
\* another and looked up, after a register of objectId 0
C10_Witness ==
  /\ 0 \in DOMAIN lastReg
  /\ lookup.objectId # 0
  /\ lookup.objectId \in DOMAIN collectionMap
  /\ lookup.result = <<2, 2>>
  /\ collectionMap[lookup.objectId] = <<1, 1>>

\* ------------------------------------------------------ start and unprepare
\* number of adjustments the counter manager takes for one collection
MaxAdjust == 2

\* RocksDBEngine::start, lines 215-234: the store is opened, the counter
\* manager and the background thread are created, the thread is started
engineStart(threadStarts) ==
  /\ sdb = "null"
  /\ upc = "idle"
  /\ enabled
  /\ sdb' = "open"
  /\ counterManager' = "live"
  /\ bgThread' = IF threadStarts THEN "running" ELSE "stopped"
  /\ UNCHANGED <<enabled, cmCount, cmStored, upc, flushed, storeVars, procVars,
                 regVars, auxVars>>

\* RocksDBCounterManager::updateCounter: a committed adjustment
adjust(objectId) ==
  /\ sdb = "open"
  /\ upc = "idle"
  /\ cmCount[objectId] < MaxAdjust
  /\ cmCount' = [cmCount EXCEPT ![objectId] = @ + 1]
  /\ UNCHANGED <<enabled, sdb, bgThread, counterManager, cmStored, upc, flushed,
                 storeVars, procVars, regVars, auxVars>>

\* RocksDBCounterManager::sync: the counts held in memory are written, unless
\* the write fails
sync(stored, count, ok) == IF ok THEN count ELSE stored

\* one round of the background thread: counterManager()->sync(false)
backgroundRun ==
  /\ bgThread = "running"
  /\ cmStored # cmCount
  /\ cmStored' = sync(cmStored, cmCount, TRUE)
  /\ UNCHANGED <<enabled, sdb, bgThread, counterManager, cmCount, upc, flushed,
                 storeVars, procVars, regVars, auxVars>>

\* lines 249-253 of unprepare
unprepareEnter ==
  /\ upc = "idle"
  /\ upc' = IF enabled /\ sdb = "open" THEN "thread" ELSE "done"
  /\ UNCHANGED <<enabled, sdb, bgThread, counterManager, cmCount, cmStored,
                 flushed, storeVars, procVars, regVars, auxVars>>

\* mutant: the thread is left alone
unprepareThreadKept == bgThread

\* lines 254-258: a running thread gets beginShutdown() and is destroyed
unprepareThread ==
  IF bgThread # "none" /\ bgThread = "running" THEN "none" ELSE bgThread

unprepareStopThread ==
  /\ upc = "thread"
  /\ bgThread' = unprepareThread
  /\ upc' = "sync"
  /\ UNCHANGED <<enabled, sdb, counterManager, cmCount, cmStored, flushed,
                 storeVars, procVars, regVars, auxVars>>

\* lines 259-261: _counterManager->sync(true), its result is not looked at
unprepareSync(ok) ==
  /\ upc = "sync"
  /\ IF counterManager # "none"
     THEN /\ cmStored' = sync(cmStored, cmCount, ok)
          /\ flushed' = TRUE
     ELSE UNCHANGED <<cmStored, flushed>>
  /\ upc' = "delete"
  /\ UNCHANGED <<enabled, sdb, bgThread, counterManager, cmCount, storeVars,
                 procVars, regVars, auxVars>>

\* lines 263-264: delete _db; _db = nullptr
unprepareDelete ==
  /\ upc = "delete"
  /\ sdb' = "released"
  /\ upc' = "done"
  /\ UNCHANGED <<enabled, bgThread, counterManager, cmCount, cmStored, flushed,
                 storeVars, procVars, regVars, auxVars>>

NextShutdown ==
  \/ \E threadStarts \in BOOLEAN : engineStart(threadStarts)
  \/ \E objectId \in DOMAIN cmCount : adjust(objectId)
  \/ backgroundRun
  \/ unprepareEnter
  \/ unprepareStopThread
  \/ \E ok \in BOOLEAN : unprepareSync(ok)
  \/ unprepareDelete

\* the engine as constructed, enabled or not
InitShutdown == InitStore /\ InitProc /\ InitReg /\ InitShut /\ InitAux

SpecShutdown == InitShutdown /\ [][NextShutdown]_vars

\* C9: unprepare releases an open store only after it has stopped the
\* background thread and called sync(true), and it returns from an open store
\* only with the sync called and the store released; no sync and no round of
\* the background thread happens once the store is released.
C9_FlushBeforeRelease ==
  /\ [](sdb = "released" =>
          /\ bgThread # "running"
          /\ flushed)
  /\ [][ (sdb = "open" /\ sdb' # "open") =>
           (flushed /\ bgThread # "running") ]_vars
  /\ [][ (backgroundRun \/ \E ok \in BOOLEAN : unprepareSync(ok))
           => sdb = "open" ]_vars
  /\ [][ (upc # "done" /\ upc' = "done" /\ enabled /\ sdb = "open")
           => (flushed' /\ sdb' = "released") ]_vars

\* the store has been released with counts that no round of the thread had
\* written
C9_Witness ==
  /\ sdb = "released"
  /\ upc = "done"
  /\ \A objectId \in DOMAIN cmCount : cmCount[objectId] = MaxAdjust
  /\ cmStored = cmCount
  /\ bgThread = "none"
  /\ flushed

\* ------------------------------------------- threads in the object registry
\* what a register that ran together with another register leaves: the map it
\* was to write, or the map without its entry (the race has no defined result)
RacedMaps(map, objectId, pair) ==
  {addCollectionMappingTo(map, objectId, pair[1], pair[2]), map}

\* the pairs the threads register
ThreadPairs == {<<1, 1>>, <<2, 2>>}

\* what a lookup that ran together with a register returns
RacedResults == ThreadPairs \cup {<<0, 0>>}

OthersIn(t, op) == {u \in Threads \ {t} : regThreads[u].op = op}

\* addCollectionMapping, lines 941-946: a thread enters; no lock is taken
addCollectionMappingEnter(t, objectId, did, cid) ==
  /\ regThreads[t].op = "idle"
  /\ objectId # 0
  /\ regThreads' =
       [u \in Threads |->
          IF u = t
          THEN [op |-> "register", objectId |-> objectId, pair |-> <<did, cid>>,
                raced |-> OthersIn(t, "register") # {}]
          ELSE IF regThreads[u].op # "idle"
          THEN [regThreads[u] EXCEPT !.raced = TRUE]
          ELSE regThreads[u]]
  /\ UNCHANGED <<storeVars, procVars, regVars, shutVars, thrOthers>>

\* addCollectionMapping, line 947: the assignment is done, the thread leaves
addCollectionMappingLeave(t) ==
  /\ regThreads[t].op = "register"
  /\ collectionMap' \in
       IF regThreads[t].raced
       THEN RacedMaps(collectionMap, regThreads[t].objectId, regThreads[t].pair)
       ELSE {addCollectionMappingTo(collectionMap, regThreads[t].objectId,
                                    regThreads[t].pair[1], regThreads[t].pair[2])}
  /\ regThreads' = [regThreads EXCEPT ![t] = IdleThread]
  /\ UNCHANGED <<lastReg, lookup, storeVars, procVars, shutVars, thrOthers>>

\* mapObjectToCollection, line 952: a thread enters; no lock is taken
mapObjectToCollectionEnter(t, objectId) ==
  /\ regThreads[t].op = "idle"
  /\ regThreads' =
       [regThreads EXCEPT ![t] =
          [op |-> "lookup", objectId |-> objectId, pair |-> <<0, 0>>,
           raced |-> OthersIn(t, "register") # {}]]
  /\ UNCHANGED <<storeVars, procVars, regVars, shutVars, thrOthers>>

\* mapObjectToCollection, lines 953-957: the thread returns what it found
mapObjectToCollectionLeave(t) ==
  /\ regThreads[t].op = "lookup"
  /\ \E result \in IF regThreads[t].raced THEN RacedResults
                   ELSE {mapObjectToCollectionIn(collectionMap,
                                                 regThreads[t].objectId)} :
       lookup' = [objectId |-> regThreads[t].objectId, result |-> result]
  /\ regThreads' = [regThreads EXCEPT ![t] = IdleThread]
  /\ UNCHANGED <<collectionMap, lastReg, storeVars, procVars, shutVars, thrOthers>>

NextRegistryThreads ==
  \/ \E t \in Threads, objectId \in RegObjectIds, p \in ThreadPairs :
        addCollectionMappingEnter(t, objectId, p[1], p[2])
  \/ \E t \in Threads : addCollectionMappingLeave(t)
  \/ \E t \in Threads, objectId \in RegObjectIds :
        mapObjectToCollectionEnter(t, objectId)
  \/ \E t \in Threads : mapObjectToCollectionLeave(t)

SpecRegistryThreads == Init /\ [][NextRegistryThreads]_vars

\* C11, as stated: no register runs together with another register or with a
\* lookup (lookups may run together), so no lookup reads the map while it is
\* being updated.
C11_RegistryExclusive ==
  \A t \in Threads :
    /\ regThreads[t].op = "register" =>
         \A u \in Threads \ {t} : regThreads[u].op = "idle"
    /\ regThreads[t].op = "lookup" => ~regThreads[t].raced

\* ------------------------------------------ the scans of one database
\* the collection ids and view ids of the keyspaces that are scanned
ScanCids == {1, 2, 3}
ScanVids == {1}

\* the keyspaces: every id is handed out once, so it is in one database at
\* most; a collection record is live or flagged deleted
ScanPlaces == {0} \cup DbIds
ScanCollInputs ==
  UNION {
    {[k \in {<<place[c], c>> : c \in {x \in ScanCids : place[x] # 0}} |->
        CollSlice(k[2], "c", k[2] \in del)] :
       del \in SUBSET {c \in ScanCids : place[c] # 0}} :
    place \in [ScanCids -> ScanPlaces]}
ScanViewInputs ==
  {{<<place[v], v>> : v \in {x \in ScanVids : place[x] # 0}} :
     place \in [ScanVids -> ScanPlaces]}

InitScan ==
  /\ collRecs \in ScanCollInputs
  /\ viewRecs \in ScanViewInputs
  /\ dbRecs = EmptyFn
  /\ docs = {}
  /\ idxEntries = {}
  /\ wal = {}
  /\ InitProc /\ InitReg /\ InitShut /\ enabled /\ InitAux

\* openExistingDatabase, lines 1166-1167: getCollectionsAndIndexes(vocbase)
scanCollections(id) ==
  /\ listed' = [kind |-> "collections", id |-> id,
                result |-> getCollectionsResult(collRecs, id)]
  /\ UNCHANGED <<storeVars, procVars, regVars, shutVars, listOthers>>

\* openExistingDatabase, lines 1121-1122: getViews(vocbase)
scanViews(id) ==
  /\ listed' = [kind |-> "views", id |-> id,
                result |-> getViewsResult(viewRecs, id)]
  /\ UNCHANGED <<storeVars, procVars, regVars, shutVars, listOthers>>

NextScan ==
  \/ \E id \in DbIds : scanCollections(id)
  \/ \E id \in DbIds : scanViews(id)

SpecScan == InitScan /\ [][NextScan]_vars

\* C12: getCollectionsAndIndexes of a database returns, once each, exactly the
\* collection records whose key carries the database's id and that are not
\* flagged deleted.
C12_CollectionScanExact ==
  listed.kind = "collections" =>
    /\ Range(listed.result) =
         {k \in DOMAIN collRecs : k[1] = listed.id /\ ~collRecs[k].deleted}
    /\ \A k \in Range(listed.result) : Count(listed.result, k) = 1

\* a database with a live and a deleted collection has been scanned while
\* another database has a collection too
C12_Witness ==
  /\ listed.kind = "collections"
  /\ Len(listed.result) = 1
  /\ \E k \in DOMAIN collRecs : k[1] = listed.id /\ collRecs[k].deleted
  /\ \E k \in DOMAIN collRecs : k[1] = listed.id /\ ~collRecs[k].deleted
  /\ \E k \in DOMAIN collRecs : k[1] # listed.id /\ ~collRecs[k].deleted

\* C13, as stated: getViews of a database returns exactly the view records
\* whose key carries the database's id (a view record carries no deleted flag).
C13_ViewScanExact ==
  listed.kind = "views" =>
    Range(listed.result) = {k \in viewRecs : k[1] = listed.id}

\* -------------------------------------------------------------- view drop
\* C14, as stated: once dropView has returned success for a view whose marker
\* createView wrote, the record of the view is no longer in the keyspace (a
\* view record carries no deleted flag that could be set instead).
C14_DroppedViewHasNoRecord ==
  [][ \A d \in DbIds, v \in VIds :
        (dropView(d, v) /\ ret' = "ok") => <<d, v>> \notin viewRecs' ]_vars

\* ------------------------------------------------- scenario: create, restart
\* RocksDBEngine::createDatabase(id, args, status), lines 542-548: the status
\* is set to no error and a new TRI_vocbase_t is returned
engineCreateDatabase(name) ==
  /\ phase = "running"
  /\ nextDb <= MaxDb
  /\ nextDb' = nextDb + 1
  /\ vocbases' = Put(vocbases, nextDb, name)
  /\ ret' = "ok"
  /\ scan' = NoScan
  /\ UNCHANGED <<storeVars, phase, pendingDrop, memColl, counters, drop,
                 nextCid, memViews, regVars, shutVars, auxVars>>

\* the caller of createDatabase may go on to call
\* writeCreateDatabaseMarker(id, slice), lines 550-559, for the new database
writeMarkerOf(id, ok) ==
  /\ phase = "running"
  /\ id \in DOMAIN vocbases
  /\ id \notin DOMAIN dbRecs
  /\ dbRecs' = IF ok
               THEN writeCreateDatabaseMarker(dbRecs, id,
                                              DbSlice(TRUE, vocbases[id], "false"))
               ELSE dbRecs
  /\ ret' = IF ok THEN "ok" ELSE "error"
  /\ scan' = NoScan
  /\ UNCHANGED <<collRecs, viewRecs, docs, idxEntries, wal, phase, vocbases,
                 pendingDrop, memColl, counters, drop, nextDb, nextCid,
                 memViews, regVars, shutVars, auxVars>>

\* the user keys of the two documents
ScenarioKeys == {1, 2}

NextScenario ==
  \/ \E good \in Goods, ok \in BOOLEAN : start(good, ok)
  \/ \E good \in Goods : openDatabases(good)
  \/ crash
  \/ \E name \in DbNames : engineCreateDatabase(name)
  \/ \E id \in DbIds, ok \in BOOLEAN : writeMarkerOf(id, ok)
  \/ \E d \in DbIds, name \in CollNames, objInt \in BOOLEAN, ok \in BOOLEAN :
        createCollection(d, name, objInt, ok)
  \/ \E cid \in CIds, key \in ScenarioKeys : insertDocument(cid, key)

SpecScenario == Init /\ [][NextScenario]_vars

\* the collection cid of database d has its marker and both documents
ScenarioDone(d, cid) ==
  /\ <<d, cid>> \in DOMAIN collRecs
  /\ ~collRecs[<<d, cid>>].deleted
  /\ \A key \in ScenarioKeys : <<objectIdOf(cid), key>> \in docs

\* C15, as stated, without its part on the counter: the engine's
\* createDatabase leaves a marker of the database and createCollection one of
\* the collection; and whenever the databases are open and a collection with
\* its marker and two documents is in the keyspace, as after the restart that
\* follows the scenario, its database and the collection are open.
C15_ScenarioReconstructed ==
  /\ [][ \A name \in DbNames :
           engineCreateDatabase(name) =>
             /\ nextDb \in DOMAIN dbRecs'
             /\ ~isDeleted(dbRecs'[nextDb]) ]_vars
  /\ [][ \A d \in DbIds, name \in CollNames, objInt \in BOOLEAN :
           createCollection(d, name, objInt, TRUE) =>
             <<d, nextCid>> \in DOMAIN collRecs' ]_vars
  /\ [](\A d \in DbIds, cid \in CIds :
          (phase = "running" /\ ScenarioDone(d, cid)) =>
            /\ d \in DOMAIN vocbases
            /\ cid \in DOMAIN memColl
            /\ memColl[cid].db = d)

\* ---------------------------------- objectIds of new collections and indexes
\* number of collections and indexes created
MaxObjects == 3
\* what the info object holds under "objectId": nothing, or an objectId
NoObjectId == 0
InfoObjectIds == {NoObjectId} \cup (1..MaxObjects)

\* lines 287-289 and 294-296: the objectId the new object is built with, the
\* one of info when it has the key, a new tick otherwise
addParameters(info, tick) ==
  IF info = NoObjectId
  THEN [objectId |-> tick + 1, tick |-> tick + 1]
  ELSE [objectId |-> info, tick |-> tick]

\* RocksDBEngine::addParametersForNewCollection(builder, info)
addParametersForNewCollection(info) ==
  /\ Len(oidAssigned) < MaxObjects
  /\ oidTick' = addParameters(info, oidTick).tick
  /\ oidAssigned' = Append(oidAssigned,
                           [kind |-> "collection",
                            objectId |-> addParameters(info, oidTick).objectId])
  /\ UNCHANGED <<storeVars, procVars, regVars, shutVars, oidOthers>>

\* RocksDBEngine::addParametersForNewIndex(builder, info)
addParametersForNewIndex(info) ==
  /\ Len(oidAssigned) < MaxObjects
  /\ oidTick' = addParameters(info, oidTick).tick
  /\ oidAssigned' = Append(oidAssigned,
                           [kind |-> "index",
                            objectId |-> addParameters(info, oidTick).objectId])
  /\ UNCHANGED <<storeVars, procVars, regVars, shutVars, oidOthers>>

NextObjectIds ==
  \/ \E info \in InfoObjectIds : addParametersForNewCollection(info)
  \/ \E info \in InfoObjectIds : addParametersForNewIndex(info)

SpecObjectIds == Init /\ [][NextObjectIds]_vars

\* C16, as stated: no two of the collections and indexes created share an
\* objectId, also when info carried one.
C16_ObjectIdsUnique ==
  \A i, j \in DOMAIN oidAssigned :
    i # j => oidAssigned[i].objectId # oidAssigned[j].objectId

\* ------------------------------------------------------- counter recovery
\* number of transactions that commit an adjustment
MaxWal == 3
\* the adjustments of a transaction: documents inserted less documents removed
Deltas == {1, 2, -1}

RECURSIVE SumFrom(_, _)
\* the sum of the adjustments of the log after sequence number seq
SumFrom(log, seq) ==
  IF seq >= Len(log) THEN 0 ELSE log[seq + 1] + SumFrom(log, seq + 1)

\* adjust(objectId, delta) for the transaction committed with number seq
counterAdjust(mem, delta, seq) ==
  [mem EXCEPT !.count = @ + delta, !.seq = seq]

\* mutant: the replay starts at the checkpoint's sequence marker, not after it
recoverFromMarker(disk, log) ==
  [up |-> TRUE, recovered |-> TRUE,
   count |-> disk.count + SumFrom(log, IF disk.seq > 0 THEN disk.seq - 1 ELSE 0),
   seq |-> Len(log)]

\* recover(objectId): the last checkpoint, then the adjustments logged after
\* its sequence marker
recover(disk, log) ==
  [up |-> TRUE, recovered |-> TRUE,
   count |-> disk.count + SumFrom(log, disk.seq),
   seq |-> Len(log)]

\* a transaction stages an adjustment
stageAdjust(delta) ==
  /\ ctrMem.up
  /\ ctrStaged = 0
  /\ Len(ctrWal) < MaxWal
  /\ ctrStaged' = delta
  /\ UNCHANGED <<ctrWal, ctrMem, ctrDisk, ctrSnap, storeVars, procVars,
                 regVars, shutVars, ctrOthers>>

\* the transaction commits: its adjustment is logged and recorded in memory
commitAdjust ==
  /\ ctrMem.up
  /\ ctrStaged # 0
  /\ ctrWal' = Append(ctrWal, ctrStaged)
  /\ ctrMem' = counterAdjust(ctrMem, ctrStaged, Len(ctrWal) + 1)
  /\ ctrStaged' = 0
  /\ UNCHANGED <<ctrDisk, ctrSnap, storeVars, procVars, regVars, shutVars,
                 ctrOthers>>

\* the transaction is aborted
abortAdjust ==
  /\ ctrMem.up
  /\ ctrStaged # 0
  /\ ctrStaged' = 0
  /\ UNCHANGED <<ctrWal, ctrMem, ctrDisk, ctrSnap, storeVars, procVars,
                 regVars, shutVars, ctrOthers>>

\* checkpoint, first half: the entry is read under the lock
checkpointSnapshot ==
  /\ ctrMem.up
  /\ ~ctrSnap.taken
  /\ ctrSnap' = [taken |-> TRUE, count |-> ctrMem.count, seq |-> ctrMem.seq]
  /\ UNCHANGED <<ctrWal, ctrMem, ctrDisk, ctrStaged, storeVars, procVars,
                 regVars, shutVars, ctrOthers>>

\* checkpoint, second half: the snapshot is written
checkpointWrite ==
  /\ ctrMem.up
  /\ ctrSnap.taken
  /\ ctrDisk' = [count |-> ctrSnap.count, seq |-> ctrSnap.seq]
  /\ ctrSnap' = NoSnap
  /\ UNCHANGED <<ctrWal, ctrMem, ctrStaged, storeVars, procVars, regVars,
                 shutVars, ctrOthers>>

\* the process dies: what is in memory is lost
counterCrash ==
  /\ ctrMem.up
  /\ ctrMem' = [up |-> FALSE, recovered |-> FALSE, count |-> 0, seq |-> 0]
  /\ ctrSnap' = NoSnap
  /\ ctrStaged' = 0
  /\ UNCHANGED <<ctrWal, ctrDisk, storeVars, procVars, regVars, shutVars,
                 ctrOthers>>

\* start, lines 224-225: the new counter manager recovers the count
counterRecover ==
  /\ ~ctrMem.up
  /\ ctrMem' = recover(ctrDisk, ctrWal)
  /\ UNCHANGED <<ctrWal, ctrDisk, ctrSnap, ctrStaged, storeVars, procVars,
                 regVars, shutVars, ctrOthers>>

NextCounter ==
  \/ \E delta \in Deltas : stageAdjust(delta)
  \/ commitAdjust
  \/ abortAdjust
  \/ checkpointSnapshot
  \/ checkpointWrite
  \/ counterCrash
  \/ counterRecover

SpecCounter == Init /\ [][NextCounter]_vars

\* C17: whenever the counter manager is up, and so after every recover that
\* follows a crash, the count is the sum of the adjustments of the committed
\* transactions, each counted once and no uncommitted one counted.
C17_RecoveredCountIsSum ==
  ctrMem.up => ctrMem.count = SumFrom(ctrWal, 0)

\* a recover has replayed adjustments that were committed after the last
\* checkpoint, on top of a checkpoint that holds earlier ones
C17_Witness ==
  /\ ctrMem.up
  /\ ctrMem.recovered
  /\ ctrDisk.seq > 0
  /\ ctrDisk.seq < Len(ctrWal)
  /\ ctrDisk.count # 0
  /\ ctrMem.count # ctrDisk.count

\* ------------------------------------------------- the transaction adapter
\* createTransactionState, lines 272-277, hands the four settings of the
\* engine to the transaction state: the size limit, the flag that enables
\* intermediate commits, and the size and the count at which one is made.
\* The transaction state itself is described in section 4.4 of the
\* specification.

MaxTxOps == 4
\* _intermediateTransactionCommitCount and _intermediateTransactionCommitSize,
\* scaled down
TxCommitCount == 2
TxCommitSize == 2

TxKeys == 1..MaxTxOps
TxSizes == {1, 2}

\* an intermediate commit is due
intermediateCommitDue(flag, numOps, size) ==
  flag /\ (numOps >= TxCommitCount \/ size >= TxCommitSize)

\* a variant that lets a failed commit write its batch
commitBatchWritten(visible, batch, ok) == visible \cup batch

\* the atomic batch write of the store: all of the batch or nothing
commitBatch(visible, batch, ok) ==
  IF ok THEN visible \cup batch ELSE visible

\* collectOptions, lines 126-128: --rocksdb.intermediate-transaction
txConfigure(flag) ==
  /\ txState = "none"
  /\ txEnabled # flag
  /\ txEnabled' = flag
  /\ UNCHANGED <<txState, txOps, txStaged, txSize, txVisible, txDiscarded,
                 txCrossed, storeVars, procVars, regVars, shutVars, txOthers>>

\* begin()
txBegin ==
  /\ txState = "none"
  /\ txState' = "running"
  /\ UNCHANGED <<txEnabled, txOps, txStaged, txSize, txVisible, txDiscarded,
                 txCrossed, storeVars, procVars, regVars, shutVars, txOthers>>

\* stage(key, value, op), and the intermediate commit it makes when a
\* threshold is reached; ok says whether that commit succeeds
txStage(key, size, ok) ==
  /\ txState = "running"
  /\ key \notin txOps
  /\ txOps' = txOps \cup {key}
  /\ IF intermediateCommitDue(txEnabled, Cardinality(txStaged) + 1,
                              txSize + size)
     THEN /\ txVisible' = commitBatch(txVisible, txStaged \cup {key}, ok)
          /\ txStaged' = {}
          /\ txSize' = 0
          /\ txCrossed' = (txCrossed \/ ok)
          /\ txState' = IF ok THEN "running" ELSE "failed"
          /\ txDiscarded' = IF ok THEN txDiscarded ELSE txStaged \cup {key}
     ELSE /\ ok
          /\ txStaged' = txStaged \cup {key}
          /\ txSize' = txSize + size
          /\ UNCHANGED <<txVisible, txCrossed, txState, txDiscarded>>
  /\ UNCHANGED <<txEnabled, storeVars, procVars, regVars, shutVars, txOthers>>

\* commit()
txCommit(ok) ==
  /\ txState = "running"
  /\ txVisible' = commitBatch(txVisible, txStaged, ok)
  /\ txStaged' = {}
  /\ txSize' = 0
  /\ txState' = IF ok THEN "committed" ELSE "failed"
  /\ txDiscarded' = IF ok THEN txDiscarded ELSE txStaged
  /\ UNCHANGED <<txEnabled, txOps, txCrossed, storeVars, procVars, regVars,
                 shutVars, txOthers>>

\* abort()
txAbort ==
  /\ txState = "running"
  /\ txStaged' = {}
  /\ txSize' = 0
  /\ txState' = "aborted"
  /\ txDiscarded' = txStaged
  /\ UNCHANGED <<txEnabled, txOps, txVisible, txCrossed, storeVars, procVars,
                 regVars, shutVars, txOthers>>

NextTransaction ==
  \/ \E flag \in BOOLEAN : txConfigure(flag)
  \/ txBegin
  \/ \E key \in TxKeys, size \in TxSizes, ok \in BOOLEAN :
       txStage(key, size, ok)
  \/ \E ok \in BOOLEAN : txCommit(ok)
  \/ txAbort

SpecTransaction == Init /\ [][NextTransaction]_vars

txFinished == txState \in {"committed", "failed", "aborted"}

\* what a transaction that never makes an intermediate commit leaves
\* visible: all of its keys after a commit, none otherwise
txAtomicOutcome == IF txState = "committed" THEN txOps ELSE {}

ByteBase == 2
IdWidth == 2
MaxUserKeyLen == 1
MaxStored == 2

RECURSIVE Power(_, _)
Power(b, n) == IF n = 0 THEN 1 ELSE b * Power(b, n - 1)

Bytes == 0..(ByteBase - 1)
MaxId == Power(ByteBase, IdWidth) - 1
KeyIds == 0..MaxId
UserKeys == UNION {[1..n -> Bytes] : n \in 0..MaxUserKeyLen}

\* the tags of section 6
TagIndex == 3
TagDocument == 4
EntryTags == {TagIndex, TagDocument}

\* an identifier written without leading zero bytes
RECURSIVE uintToShortest(_)
uintToShortest(id) ==
  IF id < ByteBase THEN <<id>>
  ELSE Append(uintToShortest(id \div ByteBase), id % ByteBase)

\* a variant of the encoding that does not pad to the width
uintToPersistentUnpadded(id, width) == uintToShortest(id)

\* an identifier in width bytes, the most significant byte first
RECURSIVE uintToPersistent(_, _)
uintToPersistent(id, width) ==
  IF width = 0 THEN <<>>
  ELSE Append(uintToPersistent(id \div ByteBase, width - 1), id % ByteBase)

\* encode(tag, objectId): the prefix of the keys of one object
encodePrefix(tag, objectId) == <<tag>> \o uintToPersistent(objectId, IdWidth)

\* encode(tag, objectId, userKey)
encodeKey(tag, objectId, userKey) == encodePrefix(tag, objectId) \o userKey

\* the byte order of the store's comparator: a < b
RECURSIVE LexLess(_, _)
LexLess(a, b) ==
  IF b = <<>> THEN FALSE
  ELSE IF a = <<>> THEN TRUE
  ELSE IF a[1] # b[1] THEN a[1] < b[1]
  ELSE LexLess(Tail(a), Tail(b))

\* prefixBound(scopeId): [encode(tag, id), encode(tag, id + 1)), and
\* EncodingOverflow for the largest id
prefixBound(tag, objectId) ==
  IF objectId >= MaxId
  THEN [status |-> "EncodingOverflow", lower |-> <<>>, upper |-> <<>>]
  ELSE [status |-> "ok", lower |-> encodePrefix(tag, objectId),
        upper |-> encodePrefix(tag, objectId + 1)]

\* RocksDBKeyBounds::CollectionDocuments and RocksDBKeyBounds::IndexEntries
CollectionDocuments(objectId) == prefixBound(TagDocument, objectId)
IndexEntries(objectId) == prefixBound(TagIndex, objectId)
BoundsOf(tag, objectId) ==
  IF tag = TagDocument THEN CollectionDocuments(objectId)
  ELSE IndexEntries(objectId)

\* the bounds of all keys of one type
tagBound(tag) == [status |-> "ok", lower |-> <<tag>>, upper |-> <<tag + 1>>]

withinBounds(key, bounds) ==
  /\ bounds.status = "ok"
  /\ ~LexLess(key, bounds.lower)
  /\ LexLess(key, bounds.upper)

\* an entry is what was stored: the key is computed from it
Entries == [tag : EntryTags, objectId : KeyIds, userKey : UserKeys]
keyOf(e) == encodeKey(e.tag, e.objectId, e.userKey)
entriesWithin(entries, bounds) ==
  {e \in entries : withinBounds(keyOf(e), bounds)}

\* a document or an index entry is written
kvPut(e) ==
  /\ Cardinality(kvKeys) < MaxStored
  /\ e \notin kvKeys
  /\ kvKeys' = kvKeys \cup {e}
  /\ kvLast' = NoRange
  /\ UNCHANGED <<storeVars, procVars, regVars, shutVars, kvOthers>>

\* removeLargeRange(_db, bounds), lines 717-720, 1037-1038, 1053-1054
kvRemoveRange(tag, objectId) ==
  LET bounds == BoundsOf(tag, objectId)
      hit == entriesWithin(kvKeys, bounds)
  IN /\ kvKeys # {}
     /\ kvKeys' = kvKeys \ hit
     /\ kvLast' = [op |-> "remove", tag |-> tag, objectId |-> objectId,
                   status |-> bounds.status, before |-> kvKeys, keys |-> hit]
     /\ UNCHANGED <<storeVars, procVars, regVars, shutVars, kvOthers>>

\* an iterator over the keys of one type
kvScan(tag) ==
  /\ kvKeys # {}
  /\ kvLast' = [op |-> "scan", tag |-> tag, objectId |-> 0, status |-> "ok",
                before |-> kvKeys,
                keys |-> entriesWithin(kvKeys, tagBound(tag))]
  /\ UNCHANGED <<kvKeys, storeVars, procVars, regVars, shutVars, kvOthers>>

NextKeys ==
  \/ \E e \in Entries : kvPut(e)
  \/ \E tag \in EntryTags, objectId \in KeyIds : kvRemoveRange(tag, objectId)
  \/ \E tag \in EntryTags : kvScan(tag)

SpecKeys == Init /\ [][NextKeys]_vars

\* the entries of one object, and of one type
entriesOf(entries, tag, objectId) ==
  {e \in entries : e.tag = tag /\ e.objectId = objectId}
entriesOfType(entries, tag) == {e \in entries : e.tag = tag}

\* C19: a stored key lies within the prefix bound of an object exactly if it
\* is a key of that object, so never within the bound of an object with
\* another objectId; a range deletion removes the keys of its object and no
\* other key; a scan bounded by a type tag returns the records of that type
\* and no other.
C19_PrefixContainment ==
  /\ \A e \in kvKeys : \A tag \in EntryTags, objectId \in KeyIds \ {MaxId} :
       withinBounds(keyOf(e), BoundsOf(tag, objectId))
         <=> (e.tag = tag /\ e.objectId = objectId)
  /\ (kvLast.op = "remove" /\ kvLast.status = "ok") =>
       /\ kvLast.keys = entriesOf(kvLast.before, kvLast.tag, kvLast.objectId)
       /\ kvKeys = kvLast.before \ kvLast.keys
  /\ (kvLast.op = "remove" /\ kvLast.status # "ok") =>
       /\ kvLast.keys = {}
       /\ kvKeys = kvLast.before
  /\ kvLast.op = "scan" =>
       kvLast.keys = entriesOfType(kvLast.before, kvLast.tag)

\* a range deletion has removed the keys of one object while a key of the
\* object with the next objectId, which differs in the leading byte of the
\* identifier, and a key of the other type with the same objectId stay
C19_Witness ==
  /\ kvLast.op = "remove"
  /\ kvLast.keys # {}
  /\ kvLast.objectId = ByteBase - 1
  /\ \E e \in kvKeys :
       \/ e.tag = kvLast.tag /\ e.objectId = kvLast.objectId + 1
       \/ e.tag # kvLast.tag /\ e.objectId = kvLast.objectId

\* ------------------------------------------- the drop of a database, in order
\* the database record of id carries deleted = true
SoftDeleted(recs, id) == id \in DOMAIN recs /\ recs[id].deleted = "true"

\* the objectIds the collection records of database id name
objectIdsOfDatabase(id) ==
  {collRecs[key].objectId : key \in {k \in DOMAIN collRecs : k[1] = id}}
indexIdsOfDatabase(id) ==
  UNION {Range(collRecs[key].indexes) :
           key \in {k \in DOMAIN collRecs : k[1] = id}}

\* this step removes a record or a key of database id
RemovesOf(id) ==
  \/ id \in DOMAIN dbRecs /\ id \notin DOMAIN dbRecs'
  \/ \E key \in DOMAIN collRecs \ DOMAIN collRecs' : key[1] = id
  \/ \E key \in viewRecs \ viewRecs' : key[1] = id
  \/ \E k \in docs \ docs' : k[1] \in objectIdsOfDatabase(id)
  \/ \E k \in idxEntries \ idxEntries' : k[1] \in indexIdsOfDatabase(id)

\* a step in which dropDatabase(id) runs: the call for a vocbase, or the
\* startup scan
dropDatabaseRuns ==
  \/ \E id \in DbIds, good \in 0..MaxPlan : dropDatabase(id, good)
  \/ startupStep

CreatedIn(id, cid) ==
  /\ LogValue("CollectionCreate", id, cid) \in wal
  /\ ~DropCommitted(cid)

\* C21: once dropDatabase(id) has run to its end, in one run or after a run
\* that stopped at some step and the retry of the next startup scan, no
\* record and no document or index key of a collection of the database
\* remains.
C21_RetryRemovesAll ==
  \A id \in DbIds, cid \in CIds :
    (CreatedIn(id, cid) /\ id \notin DOMAIN dbRecs) =>
      /\ <<id, cid>> \notin DOMAIN collRecs
      /\ DocRange(docs, cid) = {}
      /\ IdxRange(idxEntries, cid) = {}

\* ---------------------------------------------- malformed database records
\* the records getDatabases rejects: the id is no string, or the record is
\* not marked deleted and the name is no string
Malformed(recs) ==
  {id \in DOMAIN recs :
     \/ ~recs[id].idStr
     \/ recs[id].deleted # "true" /\ recs[id].name = NotAString}

FirstMalformed(recs) ==
  CHOOSE id \in Malformed(recs) : \A other \in Malformed(recs) : id <= other

\* C22: a startup scan over a keyspace with a malformed database record
\* throws: the engine does not get past the scan, no database is opened, and
\* the scan has neither listed nor dropped the malformed record or any record
\* behind it; a scan over a keyspace without one does not throw.
C22_MalformedAbortsScan ==
  [][ startupStep =>
        IF Malformed(dbRecs) = {}
        THEN ~scan'.threw
        ELSE /\ scan'.threw
             /\ phase' = "down"
             /\ vocbases' = EmptyFn
             /\ \A id \in Range(scan'.result) \cup scan'.dropped :
                  id < FirstMalformed(dbRecs) ]_vars

\* a scan has thrown on a record that is not deleted and whose name is not a
\* string, after it had listed the record before it
C22_Witness ==
  /\ scan.threw
  /\ phase = "down"
  /\ scan.result # <<>>
  /\ \E id \in DOMAIN dbRecs :
       /\ dbRecs[id].idStr
       /\ dbRecs[id].deleted # "true"
       /\ dbRecs[id].name = NotAString
       /\ id \notin Range(scan.result)

\* ------------------------------------------------- the options of the engine
\* collectOptions (lines 106-129) registers the options and binds each to a
\* member; the values are opaque to the engine, which stores them and hands
\* them to every transaction state (lines 272-277).

OptMaxSize == "rocksdb.max-transaction-size"
OptCommitSize == "rocksdb.intermediate-transaction-size"
OptCommitCount == "rocksdb.intermediate-transaction-count"
OptEnabled == "rocksdb.intermediate-transaction"
OptNames == {OptMaxSize, OptCommitSize, OptCommitCount, OptEnabled}
OptValues == {"v1", "v2", "true"}

\* ProgramOptions::addOption with a name that is registered already: the
\* first registration stays, or the second replaces it
addOption(table, name, member, keepFirst) ==
  IF name \in DOMAIN table /\ keepFirst THEN table
  ELSE Put(table, name, member)

\* RocksDBEngine::collectOptions: lines 115 and 120 register the same name,
\* first for the size, then for the count
collectOptions(keepFirst) ==
  /\ optTable = <<>>
  /\ optTable' =
       addOption(
         addOption(
           addOption(
             addOption(EmptyFn, OptMaxSize, "maxSize", keepFirst),
             OptCommitCount, "commitSize", keepFirst),
           OptCommitCount, "commitCount", keepFirst),
         OptEnabled, "enabled", keepFirst)
  /\ optMember' = [optMember EXCEPT !.commitCount = "100000"]
  /\ UNCHANGED <<optLast, optTx, storeVars, procVars, regVars, shutVars,
                 optOthers>>

\* the command line gives --name value: the member the name is bound to is
\* set; a name that is not registered is an error
setOption(name, value) ==
  /\ optTable # <<>>
  /\ optTx = NoTransactionState
  /\ IF name \in DOMAIN optTable
     THEN /\ optMember' = [optMember EXCEPT ![optTable[name]] = value]
          /\ optLast' = [name |-> name, status |-> "ok", value |-> value,
                         before |-> optMember]
     ELSE /\ optLast' = [name |-> name, status |-> "unknown option",
                         value |-> value, before |-> optMember]
          /\ UNCHANGED optMember
  /\ UNCHANGED <<optTable, optTx, storeVars, procVars, regVars, shutVars,
                 optOthers>>

\* RocksDBEngine::createTransactionState, lines 272-277
createTransactionState ==
  /\ optTable # <<>>
  /\ optTx' = [maxSize |-> optMember.maxSize,
               enabled |-> optMember.enabled,
               commitSize |-> optMember.commitSize,
               commitCount |-> optMember.commitCount]
  /\ UNCHANGED <<optTable, optMember, optLast, storeVars, procVars, regVars,
                 shutVars, optOthers>>

NextOptions ==
  \/ \E keepFirst \in BOOLEAN : collectOptions(keepFirst)
  \/ \E name \in OptNames, value \in OptValues : setOption(name, value)
  \/ createTransactionState

SpecOptions == Init /\ [][NextOptions]_vars

\* C23: the option of the size threshold sets the size threshold and leaves
\* the count threshold, the option of the count threshold sets the count
\* threshold and leaves the size threshold, and a transaction state is
\* created with the thresholds and the flag as configured.
C23_ThresholdsIndependent ==
  /\ optLast.name = OptCommitSize =>
       /\ optLast.status = "ok"
       /\ optMember.commitSize = optLast.value
       /\ optMember.commitCount = optLast.before.commitCount
  /\ optLast.name = OptCommitCount =>
       /\ optLast.status = "ok"
       /\ optMember.commitCount = optLast.value
       /\ optMember.commitSize = optLast.before.commitSize
  /\ optTx # NoTransactionState =>
       /\ optTx.commitSize = optMember.commitSize
       /\ optTx.commitCount = optMember.commitCount
       /\ optTx.enabled = optMember.enabled

\* ------------------------------------------------------ the system database
\* the records that carry the name of the system database
SystemRecords(recs) == {id \in DOMAIN recs : recs[id].name = SystemDatabase}

startRuns == \E good \in Goods, ok \in BOOLEAN : start(good, ok)

\* C24: whenever start() has completed, the keyspace holds exactly one
\* record with the name of the system database, and its deleted flag is
\* false; a start() adds a record only to a keyspace that holds no such
\* record, and then exactly one.
C24_OneSystemDatabase ==
  /\ [](phase \in {"started", "running"} =>
          /\ Cardinality(SystemRecords(dbRecs)) = 1
          /\ \A id \in SystemRecords(dbRecs) : dbRecs[id].deleted = "false")
  /\ [][startRuns =>
          \/ DOMAIN dbRecs' \subseteq DOMAIN dbRecs
          \/ /\ SystemRecords(dbRecs) = {}
             /\ Cardinality(DOMAIN dbRecs' \ DOMAIN dbRecs) = 1
             /\ DOMAIN dbRecs' \ DOMAIN dbRecs = SystemRecords(dbRecs')]_vars

\* a start() after a restart has found the system database next to another
\* database and has added nothing
C24_Witness ==
  /\ phase = "started"
  /\ ~scan.threw
  /\ Cardinality(DOMAIN dbRecs) >= 2
  /\ \E j \in DOMAIN scan.result : scan.result[j] \in SystemRecords(dbRecs)

\* ------------------------------------------------------ the analyzer feature
\* IResearchAnalyzerFeature (src/unnamed/part_000): the registry _analyzers of
\* analyzer pools, the configuration collection _iresearch_analyzers that
\* persists them with their reference counts, and the calls of the feature.
\* One static analyzer and one custom analyzer are modelled; an analyzer's
\* type and properties are one value.

MaxRef == 1
MaxRecords == 2
\* the largest value of the type of a reference count, and of the signed type
\* a loaded count is converted to; two bits stand for the 64 of the code
CountMax == 3
SignedCountMax == 1

StaticNames == {"identity"}
CustomNames == {"a"}
AnNames == StaticNames \cup CustomNames
NilType == "nil"
IdentityType == "identity"
AnTypes == {NilType, IdentityType, "t1"}
RecordKeys == 1..MaxRecords

\* a call stops at its first failure, so one failing step per call is enough
AtMostOneFailure(oks) ==
  Cardinality({i \in DOMAIN oks : ~oks[i]}) <= 1

Pool(type, key, refCount) ==
  [type |-> type, key |-> key, refCount |-> refCount]
\* AnalyzerPool::AnalyzerPool, lines 296-303: no type, no key, no references
Placeholder == Pool(NilType, NoKey, 0)

Call(op, name, result) ==
  [op |-> op, name |-> name, arg |-> "none", result |-> result,
   pre |-> <<>>, loaded |-> <<>>]

\* the key the collection gives a new document
NewKey(store) ==
  CHOOSE key \in RecordKeys \ DOMAIN store :
    \A other \in RecordKeys \ DOMAIN store : key <= other
CanInsert(store) == RecordKeys \ DOMAIN store # {}

\* the reference count of a name in the registry, 0 if it is not registered
RefCountOf(analyzers, name) ==
  IF name \in DOMAIN analyzers THEN analyzers[name].refCount ELSE 0

\* IResearchAnalyzerFeature::storeConfiguration, lines 1116-1187: one
\* transaction that inserts {name, type, properties, ref_count} and, when it
\* committed, sets the key of the pool
storeConfiguration(store, name, pool, ok) ==
  IF ok
  THEN [ok |-> TRUE,
        store |-> Put(store, NewKey(store),
                      [name |-> name, type |-> pool.type,
                       refCount |-> pool.refCount]),
        pool |-> [pool EXCEPT !.key = NewKey(store)]]
  ELSE [ok |-> FALSE, store |-> store, pool |-> pool]

\* updateConfiguration(trx, pool, delta), lines 1246-1271: the record of the
\* pool's key gets ref_count = _refCount + delta
updateConfigurationTrx(store, pool, delta, ok) ==
  IF \/ delta < 0 /\ 0 - delta > pool.refCount
     \/ delta > 0 /\ CountMax - pool.refCount < delta
  THEN [ok |-> FALSE, store |-> store]
  ELSE IF ~ok \/ pool.key \notin DOMAIN store
  THEN [ok |-> FALSE, store |-> store]
  ELSE [ok |-> TRUE,
        store |-> [store EXCEPT ![pool.key].refCount = pool.refCount + delta]]

\* a variant that counts in memory although the transaction did not commit
updateConfigurationUncommitted(store, pool, delta, okUpdate, okCommit) ==
  LET r == updateConfigurationTrx(store, pool, delta, okUpdate)
  IN IF ~r.ok
     THEN [ok |-> FALSE, store |-> store, pool |-> pool]
     ELSE [ok |-> okCommit, store |-> IF okCommit THEN r.store ELSE store,
           pool |-> [pool EXCEPT !.refCount = @ + delta]]

\* updateConfiguration(pool, delta), lines 1189-1244: begin, update, commit,
\* and only then _refCount += delta
updateConfiguration(store, pool, delta, okUpdate, okCommit) ==
  LET r == updateConfigurationTrx(store, pool, delta, okUpdate)
  IN IF ~r.ok \/ ~okCommit
     THEN [ok |-> FALSE, store |-> store, pool |-> pool]
     ELSE [ok |-> TRUE, store |-> r.store,
           pool |-> [pool EXCEPT !.refCount = @ + delta]]

\* IResearchAnalyzerFeature::get, lines 620-651
get(analyzers, name) == IF name \in DOMAIN analyzers THEN "pool" ELSE "null"

\* emplace(name, nil, nil, false), lines 420-464: the pool of the name, a new
\* uninitialized one if there is none
emplacePlaceholder(analyzers, name) ==
  IF name \in DOMAIN analyzers THEN analyzers
  ELSE Put(analyzers, name, Placeholder)

\* IResearchAnalyzerFeature::ensure, lines 513-522
anEnsure(name) ==
  /\ anAnalyzers' = IF anStarted THEN anAnalyzers
                    ELSE emplacePlaceholder(anAnalyzers, name)
  /\ anLast' = Call("ensure", name,
                    IF anStarted THEN get(anAnalyzers, name) ELSE "pool")
  /\ UNCHANGED <<anStarted, anCollection, anStore, storeVars, procVars,
                 regVars, shutVars, anOthers>>

\* a variant of the cleanup of emplace that erases nothing
cleanupNothing(analyzers, name, erase) == analyzers

\* the cleanup of emplace, lines 443-448: the entry the call inserted is
\* erased again unless the call cleared `erase`
cleanup(analyzers, name, erase) ==
  IF erase THEN Remove(analyzers, name) ELSE analyzers

\* IResearchAnalyzerFeature::emplace(name, type, properties), lines 411-511,
\* with initAndPersist = true
emplace(analyzers, store, started, name, type, okInit, okStore) ==
  LET isNew == name \notin DOMAIN analyzers
      entered == emplacePlaceholder(analyzers, name)
      pool == IF isNew THEN Pool(type, NoKey, 0) ELSE analyzers[name]
      s == storeConfiguration(store, name, pool, okStore)
      null == [analyzers |-> cleanup(entered, name, isNew), store |-> store,
               result |-> "null"]
      stored == [analyzers |-> cleanup(Put(entered, name, s.pool), name,
                                       FALSE),
                 store |-> s.store, result |-> "pool"]
  IN IF isNew
     THEN IF ~started THEN null
          ELSE IF ~okInit THEN null
          ELSE IF ~s.ok THEN null
          ELSE stored
     ELSE IF type # pool.type THEN null
          ELSE IF pool.key = NoKey
          THEN IF ~s.ok THEN null ELSE stored
          ELSE [analyzers |-> cleanup(entered, name, FALSE),
                store |-> store, result |-> "pool"]

\* a write to the collection succeeds only if the collection exists and, in
\* this model, has room
anEmplace(name, type, okInit, okStore) ==
  /\ AtMostOneFailure(<<okInit, okStore>>)
  /\ okInit => type # NilType
  /\ okStore => (anCollection /\ CanInsert(anStore))
  /\ LET r == emplace(anAnalyzers, anStore, anStarted, name, type, okInit,
                      okStore)
     IN /\ anAnalyzers' = r.analyzers
        /\ anStore' = r.store
        /\ anLast' = Call("emplace", name, r.result)
  /\ UNCHANGED <<anStarted, anCollection, storeVars, procVars, regVars,
                 shutVars, anOthers>>

\* IResearchAnalyzerFeature::reserve, lines 986-1005
anReserve(name, okStore, okUpdate, okCommit) ==
  /\ AtMostOneFailure(<<okStore, okUpdate, okCommit>>)
  /\ okStore => (anCollection /\ CanInsert(anStore))
  /\ IF ~anStarted
     THEN /\ anAnalyzers' =
               [emplacePlaceholder(anAnalyzers, name) EXCEPT
                  ![name].refCount = (@ + 1) % (CountMax + 1)]
          /\ anLast' = Call("reserve", name, "true")
          /\ UNCHANGED anStore
     ELSE IF name \notin DOMAIN anAnalyzers
     THEN /\ anLast' = Call("reserve", name, "false")
          /\ UNCHANGED <<anAnalyzers, anStore>>
     ELSE LET pool == anAnalyzers[name]
              s == IF pool.key = NoKey
                   THEN storeConfiguration(anStore, name, pool, okStore)
                   ELSE [ok |-> TRUE, store |-> anStore, pool |-> pool]
              u == updateConfiguration(s.store, s.pool, 1, okUpdate, okCommit)
          IN IF ~s.ok
             THEN /\ anLast' = Call("reserve", name, "false")
                  /\ UNCHANGED <<anAnalyzers, anStore>>
             ELSE /\ anAnalyzers' = Put(anAnalyzers, name, u.pool)
                  /\ anStore' = u.store
                  /\ anLast' = Call("reserve", name,
                                    IF u.ok THEN "true" ELSE "false")
  /\ UNCHANGED <<anStarted, anCollection, storeVars, procVars, regVars,
                 shutVars, anOthers>>

\* reserve while the count of the name is below the bound of the model
anReserveBelow(name, okStore, okUpdate, okCommit) ==
  /\ RefCountOf(anAnalyzers, name) < MaxRef
  /\ anReserve(name, okStore, okUpdate, okCommit)

\* IResearchAnalyzerFeature::release, lines 966-984
anRelease(name, okUpdate, okCommit) ==
  /\ AtMostOneFailure(<<okUpdate, okCommit>>)
  /\ IF name \notin DOMAIN anAnalyzers
     THEN /\ anLast' = Call("release", name, "false")
          /\ UNCHANGED <<anAnalyzers, anStore>>
     ELSE LET pool == anAnalyzers[name]
              u == updateConfiguration(anStore, pool, -1, okUpdate, okCommit)
          IN IF anStarted
             THEN /\ anAnalyzers' = Put(anAnalyzers, name, u.pool)
                  /\ anStore' = u.store
                  /\ anLast' = Call("release", name,
                                    IF u.ok THEN "true" ELSE "false")
             ELSE IF pool.refCount = 0
             THEN /\ anLast' = Call("release", name, "false")
                  /\ UNCHANGED <<anAnalyzers, anStore>>
             ELSE /\ anAnalyzers' =
                       [anAnalyzers EXCEPT ![name].refCount = @ - 1]
                  /\ anLast' = Call("release", name, "true")
                  /\ UNCHANGED anStore
  /\ UNCHANGED <<anStarted, anCollection, storeVars, procVars, regVars,
                 shutVars, anOthers>>

EraseCall(name, force, result) ==
  [Call("erase", name, result) EXCEPT
     !.arg = IF force THEN "force" ELSE "no force"]

\* a variant of the reservation test of erase that lets every erase through
eraseBlockedNever(pool, force) == FALSE

\* erase, lines 547-551: outstanding reservations prevent the removal
eraseBlocked(pool, force) == ~force /\ pool.refCount # 0

\* IResearchAnalyzerFeature::erase, lines 524-618; remove says whether the
\* removal of the record went through ("done": removed, or not found) or
\* failed with another error
anErase(name, force, ok, remove, okCommit) ==
  /\ AtMostOneFailure(<<ok, remove = "done", okCommit>>)
  /\ IF name \notin DOMAIN anAnalyzers
     THEN /\ anLast' = EraseCall(name, force, "0")
          /\ UNCHANGED <<anAnalyzers, anStore>>
     ELSE LET pool == anAnalyzers[name]
          IN IF eraseBlocked(pool, force)
             THEN /\ anLast' = EraseCall(name, force, "0")
                  /\ UNCHANGED <<anAnalyzers, anStore>>
             ELSE IF anStarted /\ (~ok \/ remove # "done" \/ ~okCommit)
             THEN /\ anLast' = EraseCall(name, force, "0")
                  /\ UNCHANGED <<anAnalyzers, anStore>>
             ELSE /\ anStore' = IF anStarted THEN Remove(anStore, pool.key)
                                ELSE anStore
                  /\ anAnalyzers' = Remove(anAnalyzers, name)
                  /\ anLast' = EraseCall(name, force, "1")
  /\ UNCHANGED <<anStarted, anCollection, storeVars, procVars, regVars,
                 shutVars, anOthers>>

\* loadStaticAnalyzers, lines 872-953: the static analyzers are emplaced and
\* initialized; init leaves the pool without key, and without type when it
\* fails
loadStaticAnalyzers(analyzers, okStatic) ==
  [name \in DOMAIN analyzers \cup StaticNames |->
     IF name \in StaticNames
     THEN Pool(IF okStatic THEN IdentityType ELSE NilType, NoKey,
               RefCountOf(analyzers, name))
     ELSE analyzers[name]]

\* the visitor of loadConfiguration, lines 714-811, over the records in the
\* order of their keys
RECURSIVE loadVisit(_, _, _, _)
loadVisit(acc, store, keys, okInit) ==
  IF keys = <<>> \/ acc.threw THEN acc
  ELSE LET key == Head(keys)
           rec == store[key]
           name == rec.name
           isNew == name \notin DOMAIN acc.analyzers
           pool == IF isNew THEN Placeholder ELSE acc.analyzers[name]
           loaded == [acc EXCEPT
                        !.initialized = Put(@, name, rec.refCount)]
       IN IF rec.type = NilType
          THEN loadVisit(acc, store, Tail(keys), okInit)
          ELSE IF ~isNew /\ name \in DOMAIN acc.initialized
          THEN [acc EXCEPT !.threw = TRUE]
          ELSE IF rec.refCount > SignedCountMax
          THEN [acc EXCEPT !.threw = TRUE,
                           !.analyzers = Put(@, name, pool)]
          ELSE IF ~isNew /\ name \in StaticNames
          THEN IF rec.type # pool.type
               THEN [acc EXCEPT !.threw = TRUE]
               ELSE loadVisit(
                      [loaded EXCEPT !.analyzers = Put(@, name,
                         Pool(pool.type, key,
                              (pool.refCount + rec.refCount)
                                % (CountMax + 1)))],
                      store, Tail(keys), okInit)
          ELSE IF ~okInit
          THEN [acc EXCEPT !.threw = TRUE,
                           !.analyzers = Put(@, name,
                              Pool(NilType, NoKey, pool.refCount))]
          ELSE loadVisit(
                 [loaded EXCEPT !.analyzers = Put(@, name,
                    Pool(rec.type, key,
                         (pool.refCount + rec.refCount) % (CountMax + 1)))],
                 store, Tail(keys), okInit)

\* loadConfiguration, lines 674-870: the records are loaded, the pools that
\* got a count from a record have it written back, and the transaction is
\* committed; an exception resets the pools that were loaded
loadConfiguration(analyzers, store, okInit, okUpdate, okCommit) ==
  LET v == loadVisit([analyzers |-> analyzers, initialized |-> <<>>,
                      threw |-> FALSE],
                     store, SortedSeq(DOMAIN store), okInit)
      uninitialized == {name \in DOMAIN v.analyzers :
                          /\ name \notin DOMAIN v.initialized
                          /\ name \notin StaticNames}
      counted == {name \in DOMAIN v.initialized : v.initialized[name] # 0}
      threw == \/ v.threw
               \/ uninitialized # {}
               \/ counted # {} /\ ~okUpdate
               \/ ~okCommit
  IN IF threw
     THEN [threw |-> TRUE, store |-> store, loaded |-> v.initialized,
           analyzers |->
             [name \in DOMAIN v.analyzers |->
                IF name \in DOMAIN v.initialized
                THEN Pool(NilType, NoKey,
                          (v.analyzers[name].refCount + CountMax + 1
                             - v.initialized[name]) % (CountMax + 1))
                ELSE v.analyzers[name]]]
     ELSE [threw |-> FALSE, analyzers |-> v.analyzers,
           loaded |-> v.initialized,
           store |->
             [key \in DOMAIN store |->
                IF \E name \in counted : v.analyzers[name].key = key
                THEN LET name == CHOOSE n \in counted :
                                   v.analyzers[n].key = key
                     IN updateConfigurationTrx(
                          store, v.analyzers[name], v.initialized[name],
                          TRUE).store[key]
                ELSE store[key]]]

\* the reference counts start() finds in the registry
CountsOf(analyzers) ==
  [name \in AnNames |-> RefCountOf(analyzers, name)]

\* IResearchAnalyzerFeature::start, lines 1007-1102 (not in recovery)
anStart(okStatic, okInit, okUpdate, okCommit) ==
  /\ AtMostOneFailure(<<okStatic, okInit, okUpdate, okCommit>>)
  /\ ~anStarted
  /\ \A key \in DOMAIN anStore : anStore[key].refCount <= MaxRef
  /\ LET static == loadStaticAnalyzers(anAnalyzers, okStatic)
         l == loadConfiguration(static, anStore, okInit, okUpdate, okCommit)
         done(result, loaded) ==
           [op |-> "start", name |-> "none", arg |-> "none",
            result |-> result,
            pre |-> CountsOf(anAnalyzers), loaded |-> loaded]
     IN IF ~okStatic
        THEN /\ anAnalyzers' = static
             /\ anLast' = done("throw", <<>>)
             /\ UNCHANGED <<anStarted, anCollection, anStore>>
        ELSE IF ~anCollection
        THEN /\ anCollection' = TRUE
             /\ anAnalyzers' = static
             /\ anStarted' = (DOMAIN static \subseteq StaticNames)
             /\ anLast' = done(IF DOMAIN static \subseteq StaticNames
                               THEN "ok" ELSE "throw", <<>>)
             /\ UNCHANGED anStore
        ELSE /\ anAnalyzers' = l.analyzers
             /\ anStore' = l.store
             /\ anStarted' = ~l.threw
             /\ anLast' = done(IF l.threw THEN "throw" ELSE "ok", l.loaded)
             /\ UNCHANGED anCollection
  /\ UNCHANGED <<storeVars, procVars, regVars, shutVars, anOthers>>

\* IResearchAnalyzerFeature::stop, lines 1104-1114; a restart of the process
\* leaves the same
anStop ==
  /\ anStarted \/ anAnalyzers # <<>>
  /\ anStarted' = FALSE
  /\ anAnalyzers' = <<>>
  /\ anLast' = Call("stop", "none", "ok")
  /\ UNCHANGED <<anCollection, anStore, storeVars, procVars, regVars,
                 shutVars, anOthers>>

NextAnalyzer ==
  \/ \E name \in AnNames : anEnsure(name)
  \/ \E name \in AnNames, type \in AnTypes, okInit \in BOOLEAN,
        okStore \in BOOLEAN : anEmplace(name, type, okInit, okStore)
  \/ \E name \in AnNames, okStore \in BOOLEAN, okUpdate \in BOOLEAN,
        okCommit \in BOOLEAN :
        anReserveBelow(name, okStore, okUpdate, okCommit)
  \/ \E name \in AnNames, okUpdate \in BOOLEAN, okCommit \in BOOLEAN :
        anRelease(name, okUpdate, okCommit)
  \/ \E name \in AnNames, force \in BOOLEAN, ok \in BOOLEAN,
        remove \in {"done", "error"}, okCommit \in BOOLEAN :
        anErase(name, force, ok, remove, okCommit)
  \/ \E okStatic \in BOOLEAN, okInit \in BOOLEAN, okUpdate \in BOOLEAN,
        okCommit \in BOOLEAN : anStart(okStatic, okInit, okUpdate, okCommit)
  \/ anStop

SpecAnalyzer == Init /\ [][NextAnalyzer]_vars


\* C25: after a successful start() every analyzer that has a record holds,
\* in memory and in its record, the sum of the reservations made before the
\* start and the count the record had; with no reservation before the start
\* the record keeps its count.
C25_CountsSummedAtStart ==
  (anLast.op = "start" /\ anLast.result = "ok") =>
    \A name \in DOMAIN anLast.loaded :
      /\ name \in DOMAIN anAnalyzers
      /\ anAnalyzers[name].refCount =
           anLast.pre[name] + anLast.loaded[name]
      /\ anAnalyzers[name].key \in DOMAIN anStore
      /\ anStore[anAnalyzers[name].key].refCount =
           anLast.pre[name] + anLast.loaded[name]


\* C26: once start() has succeeded, every static analyzer is registered and
\* initialized, whatever emplace, erase, reserve and release calls follow.
C26_StaticAlwaysAvailable ==
  anStarted =>
    \A name \in StaticNames :
      /\ get(anAnalyzers, name) = "pool"
      /\ anAnalyzers[name].type = IdentityType


\* C27: erase(name, force = false) of an analyzer with outstanding
\* reservations returns 0 and leaves the registry and the records as they
\* are; so does an erase whose removal or commit fails.
C27_EraseRespectsReservations ==
  /\ [][(/\ anLast'.op = "erase"
          /\ anLast'.arg = "no force"
          /\ anLast'.name \in DOMAIN anAnalyzers
          /\ anAnalyzers[anLast'.name].refCount > 0)
         => /\ anLast'.result = "0"
            /\ anAnalyzers' = anAnalyzers
            /\ anStore' = anStore]_vars
  /\ [][\A name \in DOMAIN anAnalyzers, force \in BOOLEAN,
           failure \in {<<"error", TRUE>>, <<"done", FALSE>>} :
          (anStarted /\ anErase(name, force, TRUE, failure[1], failure[2]))
          => /\ anLast'.result = "0"
             /\ anAnalyzers' = anAnalyzers
             /\ anStore' = anStore]_vars

C27_Witness ==
  /\ anLast.op = "erase"
  /\ anLast.arg = "no force"
  /\ anLast.result = "0"
  /\ anStarted
  /\ anLast.name \in DOMAIN anAnalyzers
  /\ anAnalyzers[anLast.name].refCount > 0
  /\ anAnalyzers[anLast.name].key \in DOMAIN anStore


\* C28: an emplace that returns a null pool for a name that was not
\* registered leaves no entry for the name; an emplace for a registered name
\* with another type or other properties returns a null pool and leaves the
\* registration as it is.
C28_NoBrokenAnalyzer ==
  /\ [][(/\ anLast'.op = "emplace"
          /\ anLast'.result = "null"
          /\ anLast'.name \notin DOMAIN anAnalyzers)
         => anAnalyzers' = anAnalyzers]_vars
  /\ [][\A name \in DOMAIN anAnalyzers :
          \A type \in AnTypes \ {anAnalyzers[name].type},
             okInit \in BOOLEAN, okStore \in BOOLEAN :
          anEmplace(name, type, okInit, okStore)
          => /\ anLast'.result = "null"
             /\ anAnalyzers' = anAnalyzers
             /\ anStore' = anStore]_vars

C28_Witness ==
  /\ anStarted
  /\ anLast.op = "emplace"
  /\ anLast.result = "null"
  /\ anLast.name \notin DOMAIN anAnalyzers
  /\ \E name \in CustomNames : name \in DOMAIN anAnalyzers


\* C29: while the feature is not started, no emplace, reserve, release or
\* ensure changes the records of the configuration collection.
C29_NothingPersistedBeforeStart ==
  [][(/\ ~anStarted
      /\ anLast'.op \in {"emplace", "reserve", "release", "ensure"})
     => anStore' = anStore]_vars


\* the change reserve makes to a reference count is +1, release's is -1
ReserveDelta(op) == IF op = "reserve" THEN 1 ELSE -1

\* C30 as stated: after start, a reserve or release changes the in-memory
\* count only by its +1 or -1 and only when it returns true, and then the
\* record holds the same count; when the call returns false the in-memory
\* count and the records are unchanged.
C30_CountsInStep ==
  [][(/\ anStarted
      /\ anLast'.op \in {"reserve", "release"}
      /\ anLast'.name \in DOMAIN anAnalyzers)
     => LET name == anLast'.name
            before == anAnalyzers[name].refCount
        IN /\ name \in DOMAIN anAnalyzers'
           /\ anLast'.result = "true" =>
                /\ anAnalyzers'[name].refCount =
                     before + ReserveDelta(anLast'.op)
                /\ anAnalyzers'[name].key \in DOMAIN anStore'
                /\ anStore'[anAnalyzers'[name].key].refCount =
                     anAnalyzers'[name].refCount
           /\ anLast'.result = "false" =>
                /\ anAnalyzers'[name].refCount = before
                /\ anStore' = anStore]_vars

\* C30, amended: as above, except that a reserve that returns false may have
\* inserted the record of an analyzer that had none, with the unchanged
\* in-memory count as its ref_count; every record that existed is unchanged.
C30_CountsInStepOrInserted ==
  [][(/\ anStarted
      /\ anLast'.op \in {"reserve", "release"}
      /\ anLast'.name \in DOMAIN anAnalyzers)
     => LET name == anLast'.name
            before == anAnalyzers[name].refCount
        IN /\ name \in DOMAIN anAnalyzers'
           /\ anLast'.result = "true" =>
                /\ anAnalyzers'[name].refCount =
                     before + ReserveDelta(anLast'.op)
                /\ anAnalyzers'[name].key \in DOMAIN anStore'
                /\ anStore'[anAnalyzers'[name].key].refCount =
                     anAnalyzers'[name].refCount
           /\ anLast'.result = "false" =>
                /\ anAnalyzers'[name].refCount = before
                /\ DOMAIN anStore \subseteq DOMAIN anStore'
                /\ \A key \in DOMAIN anStore' :
                     IF key \in DOMAIN anStore
                     THEN anStore'[key] = anStore[key]
                     ELSE /\ anLast'.op = "reserve"
                          /\ anAnalyzers[name].key = NoKey
                          /\ anAnalyzers'[name].key = key
                          /\ anStore'[key].name = name
                          /\ anStore'[key].refCount = before]_vars

C30_Witness ==
  /\ anStarted
  /\ anLast.op = "reserve"
  /\ anLast.result = "false"
  /\ anLast.name \in DOMAIN anAnalyzers
  /\ anAnalyzers[anLast.name].key \in DOMAIN anStore
  /\ anStore[anAnalyzers[anLast.name].key].refCount =
       anAnalyzers[anLast.name].refCount


\* ---- the reference count as a number of the width of its type
\* reserve, release, start and stop alone, with reserve not held below the
\* bound of the model, so that a count reaches the largest value of its type
NextCount ==
  \/ \E name \in AnNames, okStore \in BOOLEAN, okUpdate \in BOOLEAN,
        okCommit \in BOOLEAN : anReserve(name, okStore, okUpdate, okCommit)
  \/ \E name \in AnNames, okUpdate \in BOOLEAN, okCommit \in BOOLEAN :
        anRelease(name, okUpdate, okCommit)
  \/ \E okStatic \in BOOLEAN, okInit \in BOOLEAN, okUpdate \in BOOLEAN,
        okCommit \in BOOLEAN : anStart(okStatic, okInit, okUpdate, okCommit)
  \/ anStop

SpecCount == Init /\ [][NextCount]_vars

\* C31: a reserve or release that returns true changes the count of its
\* analyzer by exactly +1 or -1, and one that returns false leaves it as it
\* is; so the count never wraps, neither below 0 nor above its largest value.
C31_CountNeverWraps ==
  [][(/\ anLast'.op \in {"reserve", "release"}
      /\ anLast'.name \in DOMAIN anAnalyzers')
     => anAnalyzers'[anLast'.name].refCount =
          RefCountOf(anAnalyzers, anLast'.name)
            + (IF anLast'.result = "true" THEN ReserveDelta(anLast'.op)
               ELSE 0)]_vars


\* ------------------------------------ the analyzer feature and its mutex
\* The calls of the feature as threads run them, step by step where another
\* thread can come between: the places where _mutex is taken and released,
\* the test of the pool's key and the insertion of its record.  One static
\* analyzer; reference counts are left to the section above.

MxThreads == 1..NumThreads
MxKeys == 1..MaxLockRecords

\* where a thread takes the write side of _mutex, and where it goes on
AfterWriteLock ==
  [static_lock |-> "static_emplace",          \* emplace, 427-428
   visit_lock |-> "visit_emplace_lock",       \* the visitor, 760-761
   visit_emplace_lock |-> "visit_emplace",    \* emplace, 427-428
   start_lock |-> "start_set",                \* start, 1098-1099
   stop_lock |-> "stop_clear",                \* stop, 1106-1107
   emplace_lock |-> "emplace_key",            \* emplace, 427-428
   update_lock |-> "update_commit"]           \* updateConfiguration, 1215

Goto(t, pc) == [mxPc EXCEPT ![t] = pc]

\* the end of a SCOPED_LOCK on the write side
Unlocked ==
  IF mxLock.depth = 1 THEN [owner |-> NoThread, depth |-> 0]
  ELSE [mxLock EXCEPT !.depth = @ - 1]

OthersIdle(t) == \A u \in MxThreads \ {t} : mxPc[u] = "idle"

\* a thread enters a call of the feature
mxCall(t, op) ==
  /\ mxPc[t] = "idle"
  /\ \/ op = "reserve" /\ mxStarted /\ mxPc' = Goto(t, "reserve_get")
     \/ op = "emplace" /\ mxStarted /\ mxPc' = Goto(t, "emplace_lock")
     \/ /\ op = "start" /\ ~mxStarted /\ OthersIdle(t)
        /\ mxPc' = Goto(t, "static_lock")
     \/ /\ op = "stop" /\ mxStarted /\ OthersIdle(t)
        /\ mxPc' = Goto(t, "stop_lock")
  /\ UNCHANGED <<mxLock, mxStarted, mxRegistered, mxKey, mxRecords, mxVisit,
                 storeVars, procVars, regVars, shutVars, mxOthers>>

\* WriteMutex mutex(_mutex); SCOPED_LOCK(mutex): the thread waits while
\* another thread owns the write side; when it owns it itself, a recursive
\* mutex counts the lock and any other mutex blocks the thread for good
mxLockWrite(t) ==
  /\ mxPc[t] \in DOMAIN AfterWriteLock
  /\ \/ /\ mxLock.owner = NoThread
        /\ mxLock' = [owner |-> t, depth |-> 1]
        /\ mxPc' = Goto(t, AfterWriteLock[mxPc[t]])
     \/ /\ mxLock.owner = t
        /\ mxLock' = [mxLock EXCEPT !.depth = @ + 1]
        /\ mxPc' = Goto(t, AfterWriteLock[mxPc[t]])
     \/ /\ mxLock.owner = t
        /\ mxPc' = Goto(t, "blocked")
        /\ UNCHANGED mxLock
  /\ UNCHANGED <<mxStarted, mxRegistered, mxKey, mxRecords, mxVisit,
                 storeVars, procVars, regVars, shutVars, mxOthers>>

\* reserve, line 987: ensure(name), which after start is get(name) under the
\* read side of the mutex
mxReserveGet(t) ==
  /\ mxPc[t] = "reserve_get"
  /\ mxLock.owner = NoThread
  /\ mxPc' = Goto(t, IF mxRegistered THEN "reserve_key" ELSE "idle")
  /\ UNCHANGED <<mxLock, mxStarted, mxRegistered, mxKey, mxRecords, mxVisit,
                 storeVars, procVars, regVars, shutVars, mxOthers>>

\* reserve, line 997: `pool->_key.null()`, no lock held
mxReserveKey(t) ==
  /\ mxPc[t] = "reserve_key"
  /\ mxPc' = Goto(t, IF mxKey = NoKey THEN "reserve_store"
                     ELSE "update_lock")
  /\ UNCHANGED <<mxLock, mxStarted, mxRegistered, mxKey, mxRecords, mxVisit,
                 storeVars, procVars, regVars, shutVars, mxOthers>>

\* emplace, line 489: `pool->_key.null()`, under the write lock of emplace
mxEmplaceKey(t) ==
  /\ mxPc[t] = "emplace_key"
  /\ mxPc' = Goto(t, IF mxKey = NoKey THEN "emplace_store"
                     ELSE "emplace_unlock")
  /\ UNCHANGED <<mxLock, mxStarted, mxRegistered, mxKey, mxRecords, mxVisit,
                 storeVars, procVars, regVars, shutVars, mxOthers>>

\* storeConfiguration, lines 1116-1187, called by reserve (line 997) or by
\* emplace (line 489): the record is inserted and the pool gets its key
mxStoreConfiguration(t, ok) ==
  /\ mxPc[t] \in {"reserve_store", "emplace_store"}
  /\ ok => MxKeys \ mxRecords # {}
  /\ LET key == CHOOSE k \in MxKeys \ mxRecords :
                  \A other \in MxKeys \ mxRecords : k <= other
     IN /\ mxRecords' = IF ok THEN mxRecords \cup {key} ELSE mxRecords
        /\ mxKey' = IF ok THEN key ELSE mxKey
  /\ mxPc' = Goto(t, IF mxPc[t] = "emplace_store" THEN "emplace_unlock"
                     ELSE IF ok THEN "update_lock" ELSE "idle")
  /\ UNCHANGED <<mxLock, mxStarted, mxRegistered, mxVisit,
                 storeVars, procVars, regVars, shutVars, mxOthers>>

\* updateConfiguration(pool, delta), lines 1218-1234: update and commit
\* under the write lock, which the return releases
mxUpdateCommit(t) ==
  /\ mxPc[t] = "update_commit"
  /\ mxLock' = Unlocked
  /\ mxPc' = Goto(t, "idle")
  /\ UNCHANGED <<mxStarted, mxRegistered, mxKey, mxRecords, mxVisit,
                 storeVars, procVars, regVars, shutVars, mxOthers>>

\* the return of emplace releases its lock
mxEmplaceUnlock(t) ==
  /\ mxPc[t] = "emplace_unlock"
  /\ mxLock' = Unlocked
  /\ mxPc' = Goto(t, "idle")
  /\ UNCHANGED <<mxStarted, mxRegistered, mxKey, mxRecords, mxVisit,
                 storeVars, procVars, regVars, shutVars, mxOthers>>

\* loadStaticAnalyzers, lines 872-953: emplace(name, type, args, false) under
\* its lock, then init, which leaves the pool without key; loadConfiguration
\* then visits the records there are
mxStaticEmplace(t) ==
  /\ mxPc[t] = "static_emplace"
  /\ mxLock' = Unlocked
  /\ mxRegistered' = TRUE
  /\ mxKey' = NoKey
  /\ mxVisit' = [todo |-> mxRecords, initialized |-> FALSE]
  /\ mxPc' = Goto(t, IF mxRecords = {} THEN "start_lock" ELSE "visit_lock")
  /\ UNCHANGED <<mxStarted, mxRecords,
                 storeVars, procVars, regVars, shutVars, mxOthers>>

\* the visitor of loadConfiguration, line 762: emplace(name, type,
\* properties, false) returns the pool and releases the lock it took
mxVisitEmplace(t) ==
  /\ mxPc[t] = "visit_emplace"
  /\ mxLock' = Unlocked
  /\ mxPc' = Goto(t, "visit_record")
  /\ UNCHANGED <<mxStarted, mxRegistered, mxKey, mxRecords, mxVisit,
                 storeVars, procVars, regVars, shutVars, mxOthers>>

\* the visitor of loadConfiguration, lines 765-820: a second record of the
\* name throws (and loadConfiguration resets the pool); otherwise the pool
\* gets the key of the record; leaving the visitor releases its lock
mxVisitRecord(t) ==
  /\ mxPc[t] = "visit_record"
  /\ mxLock' = Unlocked
  /\ LET key == CHOOSE k \in mxVisit.todo :
                  \A other \in mxVisit.todo : k <= other
         todo == mxVisit.todo \ {key}
     IN IF mxVisit.initialized
        THEN /\ mxKey' = NoKey
             /\ mxVisit' = [todo |-> {}, initialized |-> FALSE]
             /\ mxPc' = Goto(t, "idle")
        ELSE /\ mxKey' = key
             /\ mxVisit' = [todo |-> todo, initialized |-> TRUE]
             /\ mxPc' = Goto(t, IF todo = {} THEN "start_lock"
                                ELSE "visit_lock")
  /\ UNCHANGED <<mxStarted, mxRegistered, mxRecords,
                 storeVars, procVars, regVars, shutVars, mxOthers>>

\* start, lines 1098-1101: _started = true under the write lock
mxStartSet(t) ==
  /\ mxPc[t] = "start_set"
  /\ mxLock' = Unlocked
  /\ mxStarted' = TRUE
  /\ mxVisit' = [todo |-> {}, initialized |-> FALSE]
  /\ mxPc' = Goto(t, "idle")
  /\ UNCHANGED <<mxRegistered, mxKey, mxRecords,
                 storeVars, procVars, regVars, shutVars, mxOthers>>

\* stop, lines 1104-1114: _started = false and _analyzers.clear() under the
\* write lock
mxStopClear(t) ==
  /\ mxPc[t] = "stop_clear"
  /\ mxLock' = Unlocked
  /\ mxStarted' = FALSE
  /\ mxRegistered' = FALSE
  /\ mxKey' = NoKey
  /\ mxPc' = Goto(t, "idle")
  /\ UNCHANGED <<mxRecords, mxVisit,
                 storeVars, procVars, regVars, shutVars, mxOthers>>

NextMutex ==
  \E t \in MxThreads :
    \/ \E op \in {"reserve", "emplace", "start", "stop"} : mxCall(t, op)
    \/ mxLockWrite(t)
    \/ mxReserveGet(t)
    \/ mxReserveKey(t)
    \/ mxEmplaceKey(t)
    \/ \E ok \in BOOLEAN : mxStoreConfiguration(t, ok)
    \/ mxUpdateCommit(t)
    \/ mxEmplaceUnlock(t)
    \/ mxStaticEmplace(t)
    \/ mxVisitEmplace(t)
    \/ mxVisitRecord(t)
    \/ mxStartSet(t)
    \/ mxStopClear(t)

SpecMutex == Init /\ [][NextMutex]_vars

\* C32: while the feature is started the collection holds at most one
\* record of the analyzer, and a pool that has a key has the key of that
\* record.
C32_OneRecordPerAnalyzer ==
  mxStarted =>
    /\ Cardinality(mxRecords) <= 1
    /\ mxKey # NoKey => mxRecords = {mxKey}

\* C33: no thread is about to take the write side of the mutex while it
\* owns it, and no thread is blocked on a lock it holds itself.
C33_NoWriteLockReentry ==
  \A t \in MxThreads :
    /\ ~(mxPc[t] \in DOMAIN AfterWriteLock /\ mxLock.owner = t)
    /\ mxPc[t] # "blocked"


\* ------------------------------------------------------- IdentityTokenizer
MaxTokenLen == 3
TokenChars == {"a", "b"}
TokenData ==
  UNION {[1..n -> TokenChars] : n \in 0..MaxTokenLen}

\* a variant of next that always reports a token
nextReturnsAlways(empty) == TRUE

\* IdentityTokenizer::next, line 107: `return !empty`
nextReturns(empty) == ~empty

\* IdentityTokenizer::next, lines 100-108
tokNext ==
  /\ tokTerm' = tokValue
  /\ tokEmpty' = TRUE
  /\ tokValue' = NilRef
  /\ tokLast' = [op |-> "next", data |-> NilRef,
                 result |-> nextReturns(tokEmpty)]
  /\ UNCHANGED <<storeVars, procVars, regVars, shutVars, tokOthers>>

\* IdentityTokenizer::reset, lines 110-115
tokReset(data) ==
  /\ tokEmpty' = FALSE
  /\ tokValue' = Ref(data)
  /\ tokLast' = [op |-> "reset", data |-> Ref(data), result |-> TRUE]
  /\ UNCHANGED <<tokTerm, storeVars, procVars, regVars, shutVars, tokOthers>>

NextTokenizer ==
  \/ tokNext
  \/ \E data \in TokenData : tokReset(data)

SpecTokenizer == Init /\ [][NextTokenizer]_vars

\* C34: a next() that follows a reset(data) returns true and leaves data as
\* the term; a next() that follows another next(), or no call at all,
\* returns false.
C34_YieldsInputOnce ==
  [][tokNext =>
       IF tokLast.op = "reset"
       THEN tokLast'.result /\ tokTerm' = tokLast.data
       ELSE ~tokLast'.result]_vars

C34_Witness ==
  /\ tokLast.op = "next"
  /\ tokLast.result
  /\ ~tokTerm.null
  /\ tokTerm.chars # <<>>
  /\ tokEmpty


\* --------------------------------------------------------- OperationCursor
\* src/arangod/Utils/OperationCursor.cpp.  The iterator is the number of
\* elements it has left.
MaxLimit == 3
MaxElements == 3
MaxBatchSize == 2

\* the loop of getMore, lines 54-58
RECURSIVE getMoreLoop(_, _, _, _)
getMoreLoop(batchSize, limit, iterator, returned) ==
  IF batchSize > 0 /\ limit > 0 /\ iterator > 0
  THEN getMoreLoop(batchSize - 1, limit - 1, iterator - 1, returned + 1)
  ELSE [batchSize |-> batchSize, limit |-> limit, iterator |-> iterator,
        returned |-> returned]

\* line 59, `if (batchSize > 0 || _limit = 0)`: the second operand is written
\* as an assignment.  Read as the comparison `_limit == 0` it changes
\* nothing; read as the assignment it is, it sets _limit to 0 whenever it is
\* evaluated (batchSize is 0) and is then false.
afterLoop(batchSize, limit, reading) ==
  IF batchSize > 0 THEN [limit |-> limit, done |-> TRUE]
  ELSE IF reading = "comparison" THEN [limit |-> limit, done |-> limit = 0]
  ELSE [limit |-> 0, done |-> FALSE]

\* a cursor is created over an iterator, with a limit and a batch size
curCreate(limit, elements, batchSize) ==
  /\ curLimit' = limit
  /\ curHasMore' = TRUE
  /\ curBatchSize' = batchSize
  /\ curIterator' = elements
  /\ curInitial' = limit
  /\ curTotal' = 0
  /\ curLast' = NoGetMore
  /\ UNCHANGED <<storeVars, procVars, regVars, shutVars, curOthers>>

\* OperationCursor::getMore(uint64_t batchSize), lines 42-64
getMore(op, batchSize, reading) ==
  \* there is a cursor
  /\ curInitial > 0 \/ curHasMore
  /\ IF ~curHasMore
     THEN /\ curLast' = [op |-> op, batchSize |-> batchSize,
                         limit |-> curLimit, iterator |-> curIterator,
                         returned |-> 0, ret |-> "TRI_ERROR_FORBIDDEN"]
          /\ UNCHANGED <<curLimit, curHasMore, curIterator, curTotal>>
     ELSE LET l == getMoreLoop(batchSize, curLimit, curIterator, 0)
              a == afterLoop(l.batchSize, l.limit, reading)
          IN /\ curLimit' = a.limit
             /\ curHasMore' = ~a.done
             /\ curIterator' = l.iterator
             /\ curTotal' = curTotal + l.returned
             /\ curLast' = [op |-> op, batchSize |-> batchSize,
                            limit |-> curLimit, iterator |-> curIterator,
                            returned |-> l.returned,
                            ret |-> "TRI_ERROR_NO_ERROR"]
  /\ UNCHANGED <<curBatchSize, curInitial, storeVars, procVars, regVars,
                 shutVars, curOthers>>

curGetMore(batchSize, reading) == getMore("getMore(n)", batchSize, reading)

\* OperationCursor::getMore(), lines 32-34
curGetMoreDefault(reading) == getMore("getMore()", curBatchSize, reading)

NextCursor ==
  \/ \E limit \in 0..MaxLimit, elements \in 0..MaxElements,
        batchSize \in 1..MaxBatchSize : curCreate(limit, elements, batchSize)
  \/ \E batchSize \in 0..MaxBatchSize,
        reading \in {"comparison", "assignment"} :
        curGetMore(batchSize, reading)
  \/ \E reading \in {"comparison", "assignment"} : curGetMoreDefault(reading)

SpecCursor == Init /\ [][NextCursor]_vars

\* C35: a getMore called while hasMore() is true returns at most batchSize
\* elements and at most the remaining limit, takes that many elements from
\* the iterator and lowers the limit by that number; the elements returned
\* in total never exceed the initial limit and the limit never goes below 0.
C35_GetMoreWithinLimit ==
  /\ [](curTotal <= curInitial /\ curLimit >= 0)
  /\ [][(curHasMore /\ curLast'.op # "none")
        => /\ curLast'.returned <= curLast'.batchSize
           /\ curLast'.returned <= curLimit
           /\ curIterator' = curIterator - curLast'.returned
           /\ curLimit' = curLimit - curLast'.returned]_vars

====
